---- MODULE Spec2Model ----
(***************************************************************************)
(* Model of the TensorRT execution provider sample                         *)
(* (src/samples/tensorRTEp/tensorrt_execution_provider.cc): the compile    *)
(* and run pipeline of one fused node.                                     *)
(*                                                                         *)
(* The body of CreateNodeComputeInfoFromGraph after line 916 (compile-time *)
(* build, state capture and compute_func) is present in the source file as *)
(* a disabled block; it is the only definition of the build-from-graph     *)
(* compute path in the repository and is modelled as written.  What the    *)
(* enabled code does and does not do is modelled separately where a        *)
(* property depends on it (the compute-info record handed back to the      *)
(* host, the lock of the precompiled ComputeFunc, the commented type       *)
(* cases of the binders).                                                  *)
(***************************************************************************)
EXTENDS Integers, Sequences, FiniteSets, TLC

(***************************************************************************)
(* Bounds of the model.                                                    *)
(***************************************************************************)
\* largest value an observed dynamic dimension takes
MaxDim == 4
\* number of compute calls made on one fused node
MaxCalls == 3

(***************************************************************************)
(* Program constants.                                                      *)
(***************************************************************************)
INT_MAX == 2147483647
INT_MIN == (-2147483647) - 1

\* static_cast<int32_t>(int64_t): the value is kept when it lies in the int32
\* range, which every integer of the model does
ToInt32(v) == IF INT_MIN <= v /\ v <= INT_MAX THEN v ELSE INT_MIN

Min2(a, b) == IF a < b THEN a ELSE b
Max2(a, b) == IF a > b THEN a ELSE b

\* a map with no entry
EmptyMap == [k \in {} |-> 0]

\* m[k] = v, inserting or overwriting
Put(m, k, v) == [x \in (DOMAIN m) \cup {k} |-> IF x = k THEN v ELSE m[x]]

(***************************************************************************)
(* Network inputs.  An input is [name, is_shape, dims]; dims holds -1 for  *)
(* a dynamic dimension.  Dimension indices are 0-based as in the code.     *)
(***************************************************************************)
NbDims(input) == Len(input.dims)
DimAt(input, j) == input.dims[j + 1]
DimIdx(input) == 0 .. (NbDims(input) - 1)
DynamicDims(input) == {j \in DimIdx(input) : DimAt(input, j) = -1}

\* std::vector<int64_t> shape_vector{INT_MAX, INT_MIN, INT_MIN}
SentinelTriple == <<INT_MAX, INT_MIN, INT_MIN>>

(***************************************************************************)
(* ApplyProfileShapesFromProviderOptions.  trt_profiles is a sequence of   *)
(* profiles, each a map input name -> [min, max, opt] (what setDimensions  *)
(* or setShapeValues recorded).  Returns [ok, profiles, ranges].           *)
(***************************************************************************)
ShapeSize(input, pmin, i) ==
  IF NbDims(input) = 0 THEN 1 ELSE Len(pmin[input.name][i])

\* the dimension indices whose (min,max,opt) are pushed to the range store
RecordedDims(input, pmin) ==
  IF input.is_shape THEN 0 .. (ShapeSize(input, pmin, 1) - 1)
  ELSE DynamicDims(input)

ProfileEntry(input, pmin, pmax, popt, i) ==
  IF input.is_shape
  THEN LET n == ShapeSize(input, pmin, i) IN
       [min |-> [j \in 1 .. n |-> ToInt32(pmin[input.name][i][j])],
        max |-> [j \in 1 .. n |-> ToInt32(pmax[input.name][i][j])],
        opt |-> [j \in 1 .. n |-> ToInt32(popt[input.name][i][j])]]
  ELSE [min |-> [j \in 1 .. NbDims(input) |->
                   IF input.dims[j] = -1 THEN ToInt32(pmin[input.name][i][j])
                   ELSE input.dims[j]],
        max |-> [j \in 1 .. NbDims(input) |->
                   IF input.dims[j] = -1 THEN ToInt32(pmax[input.name][i][j])
                   ELSE input.dims[j]],
        opt |-> [j \in 1 .. NbDims(input) |->
                   IF input.dims[j] = -1 THEN ToInt32(popt[input.name][i][j])
                   ELSE input.dims[j]]]

\* what input_explicit_shape_ranges[input_name][j][i] held before the push_back
OldTriple(ranges, name, j, i) ==
  IF name \in DOMAIN ranges /\ j \in DOMAIN ranges[name]
  THEN ranges[name][j][i] ELSE <<>>

ApplyProfileShapesFromProviderOptions(trt_profiles, input, pmin, pmax, popt, ranges) ==
  IF Len(trt_profiles) = 0 \/ input.name \notin DOMAIN pmin
  THEN [ok |-> FALSE, profiles |-> trt_profiles, ranges |-> ranges]
  ELSE [ok |-> TRUE,
        profiles |-> [i \in 1 .. Len(trt_profiles) |->
                        Put(trt_profiles[i], input.name,
                            ProfileEntry(input, pmin, pmax, popt, i))],
        ranges |-> Put(ranges, input.name,
                       [j \in RecordedDims(input, pmin) |->
                          [i \in 1 .. Len(trt_profiles) |->
                             OldTriple(ranges, input.name, j, i) \o
                               <<pmin[input.name][i][j + 1],
                                 pmax[input.name][i][j + 1],
                                 popt[input.name][i][j + 1]>>]])]

(***************************************************************************)
(* GetNumProfiles: the number of profiles the option maps carry.           *)
(***************************************************************************)
GetNumProfiles(pmin) ==
  IF DOMAIN pmin = {} THEN 0
  ELSE Len(pmin[CHOOSE n \in DOMAIN pmin :
                  \A m \in DOMAIN pmin : Len(pmin[n]) >= Len(pmin[m])])

(***************************************************************************)
(* CreateNodeComputeInfoFromGraph, profile set-up (lines 720-830).         *)
(* acc is the state of the loop over the inputs.                           *)
(***************************************************************************)
\* lines 776-797: seed the implicit ranges of an input with no explicit profile
SeedMut_ZeroTriple(implicit, input) ==
  IF input.is_shape
  THEN Put(implicit, input.name, (0 :> <<<<0, 0, 0>>>>))
  ELSE IF DynamicDims(input) = {} THEN implicit
       ELSE Put(implicit, input.name,
                [j \in DynamicDims(input) |-> <<<<0, 0, 0>>>>])

SeedImplicit(implicit, input) ==
  IF input.is_shape
  THEN Put(implicit, input.name, (0 :> <<SentinelTriple>>))
  ELSE IF DynamicDims(input) = {} THEN implicit
       ELSE Put(implicit, input.name,
                [j \in DynamicDims(input) |-> <<SentinelTriple>>])

SeesDynamic(input) == input.is_shape \/ DynamicDims(input) # {}

InputStepMut_ProfileHides(acc, input, pmin, pmax, popt) ==
  LET ap == IF acc.has_explicit_profile
            THEN ApplyProfileShapesFromProviderOptions(
                   acc.trt_profiles, input, pmin, pmax, popt, acc.explicit)
            ELSE [ok |-> FALSE, profiles |-> acc.trt_profiles,
                  ranges |-> acc.explicit]
  IN IF ap.ok \/ acc.has_explicit_profile
     THEN [acc EXCEPT !.trt_profiles = ap.profiles, !.explicit = ap.ranges]
     ELSE [acc EXCEPT !.trt_profiles = ap.profiles, !.explicit = ap.ranges,
                      !.implicit = SeedImplicit(acc.implicit, input),
                      !.has_dynamic_shape = @ \/ SeesDynamic(input)]

InputStep(acc, input, pmin, pmax, popt) ==
  LET ap == IF acc.has_explicit_profile
            THEN ApplyProfileShapesFromProviderOptions(
                   acc.trt_profiles, input, pmin, pmax, popt, acc.explicit)
            ELSE [ok |-> FALSE, profiles |-> acc.trt_profiles,
                  ranges |-> acc.explicit]
  IN IF ap.ok
     THEN [acc EXCEPT !.trt_profiles = ap.profiles, !.explicit = ap.ranges]
     ELSE [acc EXCEPT !.trt_profiles = ap.profiles, !.explicit = ap.ranges,
                      !.implicit = SeedImplicit(acc.implicit, input),
                      !.has_dynamic_shape = @ \/ SeesDynamic(input)]

RECURSIVE InputLoop(_, _, _, _, _, _)
InputLoop(acc, inputs, k, pmin, pmax, popt) ==
  IF k > Len(inputs) THEN acc
  ELSE InputLoop(InputStep(acc, inputs[k], pmin, pmax, popt),
                 inputs, k + 1, pmin, pmax, popt)

\* Result of the set-up: status "ok" or "error"; missing = the names the error
\* message enumerates; config_profiles = what addOptimizationProfile received.
ProfileSetup(inputs, pmin, pmax, popt) ==
  LET explicit_on == DOMAIN pmin # {} /\ DOMAIN pmax # {} /\ DOMAIN popt # {}
      n == IF explicit_on THEN GetNumProfiles(pmin) ELSE 0
      acc0 == [has_explicit_profile |-> explicit_on,
               has_dynamic_shape |-> FALSE,
               trt_profiles |-> [i \in 1 .. n |-> EmptyMap],
               explicit |-> EmptyMap,
               implicit |-> EmptyMap]
      acc == InputLoop(acc0, inputs, 1, pmin, pmax, popt)
  IN IF acc.has_explicit_profile
     THEN IF acc.has_dynamic_shape
          THEN [acc EXCEPT !.trt_profiles = acc.trt_profiles] @@
               [status |-> "error", missing |-> DOMAIN acc.implicit,
                config_profiles |-> <<>>]
          ELSE acc @@ [status |-> "ok", missing |-> {},
                       config_profiles |-> acc.trt_profiles]
     ELSE IF acc.has_dynamic_shape
          THEN [acc EXCEPT !.trt_profiles = Append(acc.trt_profiles, EmptyMap)] @@
               [status |-> "ok", missing |-> {}, config_profiles |-> <<>>]
          ELSE acc @@ [status |-> "ok", missing |-> {}, config_profiles |-> <<>>]

(***************************************************************************)
(* Paths.  A path is [absolute, parts]; parts may hold "..".               *)
(***************************************************************************)
\* std::filesystem::path::append: an absolute right-hand side replaces the path
PathAppend(folder, filename) ==
  IF filename.absolute THEN filename
  ELSE [absolute |-> folder.absolute, parts |-> folder.parts \o filename.parts]

IsAbsolutePath(p) == p.absolute

IsRelativePathToParentPath(p) == \E k \in 1 .. Len(p.parts) : p.parts[k] = ".."

(***************************************************************************)
(* TensorrtExecutionProvider::RefitEngine (lines 605-661).                 *)
(* major = NV_TENSORRT_MAJOR; exists = the model file is on disk;          *)
(* fault names the TensorRT call that fails, if any.                       *)
(* Returns status, whether refitFromFile / refitCudaEngine were reached,   *)
(* whether the engine was refitted and whether the refitted engine cache   *)
(* file was written.                                                       *)
(***************************************************************************)
RefitResult(st, reached, refitted, wrote) ==
  [status |-> st, reached |-> reached, refitted |-> refitted, wrote |-> wrote]

\* a refit that serializes the engine before refitCudaEngine has answered
RefitMut_WriteEarly(major, filename, folder, path_check, exists, serialize, fault) ==
  LET onnx_model_path == PathAppend(folder, filename) IN
  IF major < 10 THEN RefitResult("error_version", FALSE, FALSE, FALSE)
  ELSE IF path_check /\ IsAbsolutePath(onnx_model_path)
    THEN RefitResult("error_absolute", FALSE, FALSE, FALSE)
  ELSE IF path_check /\ IsRelativePathToParentPath(onnx_model_path)
    THEN RefitResult("error_parent", FALSE, FALSE, FALSE)
  ELSE IF ~exists THEN RefitResult("error_missing", FALSE, FALSE, FALSE)
  ELSE IF fault = "refitFromFile"
    THEN RefitResult("error_refit_file", TRUE, FALSE, FALSE)
  ELSE IF fault = "refitCudaEngine"
    THEN RefitResult("error_refit_engine", TRUE, FALSE, serialize)
  ELSE RefitResult("ok", TRUE, TRUE, serialize)

RefitEngine(major, filename, folder, path_check, exists, serialize, fault) ==
  LET onnx_model_path == PathAppend(folder, filename) IN
  IF major < 10 THEN RefitResult("error_version", FALSE, FALSE, FALSE)
  ELSE IF path_check /\ IsAbsolutePath(onnx_model_path)
    THEN RefitResult("error_absolute", FALSE, FALSE, FALSE)
  ELSE IF path_check /\ IsRelativePathToParentPath(onnx_model_path)
    THEN RefitResult("error_parent", FALSE, FALSE, FALSE)
  ELSE IF ~exists THEN RefitResult("error_missing", FALSE, FALSE, FALSE)
  ELSE IF fault = "refitFromFile"
    THEN RefitResult("error_refit_file", TRUE, FALSE, FALSE)
  ELSE IF fault = "refitCudaEngine"
    THEN RefitResult("error_refit_engine", TRUE, FALSE, FALSE)
  ELSE RefitResult("ok", TRUE, TRUE, serialize)

(***************************************************************************)
(* Shape-range store: input name -> (dim index -> sequence of triples      *)
(* <<min, max, opt>>, one per profile).                                    *)
(***************************************************************************)
\* SerializeProfileV2 / DeserializeProfileV2: the profile cache file holds one
\* row per (name, dim, profile index)
SerializeProfileV2(ranges) ==
  UNION {UNION {{<<n, j, i, ranges[n][j][i]>> : i \in 1 .. Len(ranges[n][j])} :
                  j \in DOMAIN ranges[n]} : n \in DOMAIN ranges}

DeserializeProfileV2(rows) ==
  [n \in {r[1] : r \in rows} |->
     [j \in {r[2] : r \in {q \in rows : q[1] = n}} |->
        [i \in 1 .. Cardinality({r \in rows : r[1] = n /\ r[2] = j}) |->
           (CHOOSE r \in rows : r[1] = n /\ r[2] = j /\ r[3] = i)[4]]]]

\* ApplyProfileShapesFromInputTensorValue for one input: fold the observed
\* shape into the first triple of every recorded dimension
FoldTriple(t, v) == <<Min2(t[1], v), Max2(t[2], v), Max2(t[3], v)>>

ApplyProfileShapesFromInputTensorValue(ranges, input, shape) ==
  IF input.name \notin DOMAIN ranges THEN ranges
  ELSE Put(ranges, input.name,
           [j \in DOMAIN ranges[input.name] |->
              [i \in 1 .. Len(ranges[input.name][j]) |->
                 IF i = 1 THEN FoldTriple(ranges[input.name][j][1], shape[j + 1])
                 ELSE ranges[input.name][j][i]]])

\* lines 1438-1452: the loop over the network inputs
RECURSIVE FoldInputs(_, _, _, _)
FoldInputs(ranges, inputs, obs, k) ==
  IF k > Len(inputs) THEN ranges
  ELSE FoldInputs(
         ApplyProfileShapesFromInputTensorValue(ranges, inputs[k], obs[inputs[k].name]),
         inputs, obs, k + 1)

(***************************************************************************)
(* Files of the cache directory.  An engine file is                        *)
(* [state: absent|valid|corrupt, built_for: the ranges of the engine];     *)
(* the profile file is [state: absent|valid, rows].                        *)
(***************************************************************************)
NoEngineFile == [state |-> "absent", built_for |-> EmptyMap]
EngineFile(ranges) == [state |-> "valid", built_for |-> ranges]
CorruptEngineFile == [state |-> "corrupt", built_for |-> EmptyMap]
NoProfileFile == [state |-> "absent", rows |-> {}]
ProfileFile(ranges) == [state |-> "valid", rows |-> SerializeProfileV2(ranges)]

(***************************************************************************)
(* Engine and execution context of the fused node.                         *)
(* engine = [live, built_for]; context is "null", "live" (created from the *)
(* engine now held) or "stale" (created from an engine since destroyed).   *)
(***************************************************************************)
NullEngine == [live |-> FALSE, built_for |-> EmptyMap]
LiveEngine(ranges) == [live |-> TRUE, built_for |-> ranges]

\* unique_ptr<IExecutionContext>::reset()
ResetContext(s) == [s EXCEPT !.context = "null"]

\* unique_ptr<ICudaEngine>::reset(): destroying an engine whose context is alive
\* is recorded in bad_destroy
ResetEngine(s) ==
  [s EXCEPT !.engine = NullEngine,
            !.context = IF s.engine.live /\ s.context = "live" THEN "stale" ELSE @,
            !.bad_destroy = @ \/ (s.engine.live /\ s.context = "live")]

\* *(engine) = std::unique_ptr<ICudaEngine>(e): the engine held before is destroyed
AssignEngine(s, e) == [ResetEngine(s) EXCEPT !.engine = e]

\* *(context) = std::unique_ptr<IExecutionContext>(c)
AssignContext(s, c) == [s EXCEPT !.context = c]

(***************************************************************************)
(* State.                                                                  *)
(***************************************************************************)
VARIABLES
  cfg,                        \* provider options
  fused_nodes,                \* the (graph, fused node) pairs Compile is given
  profile_min_shapes_,        \* explicit profile options, name -> profiles
  profile_max_shapes_,
  profile_opt_shapes_,
  disk,                       \* cache directory and model file
  node,                       \* "uncompiled", "graph", "ctx", "failed", "destroyed"
  engine,                     \* engines_[fused node]
  context,                    \* contexts_[fused node]
  input_shape_ranges_,        \* shape-range store of the fused node
  weight_stripped_engine_refit_,
  history,                    \* what the compute calls made so far observed
  compiled,                   \* what Compile returned
  bad_destroy,                \* an engine was destroyed while its context lived
  crashed,                    \* a null handle was dereferenced
  last_call,                  \* what the latest compute call did
  pc,                         \* position of each thread
  locals,                     \* locals of each thread's compute call
  tensorrt_mu_,               \* holder of the per-provider mutex, 0 if free
  api_lock,                   \* holder of the GetApiLock() mutex, 0 if free
  refit_call,                 \* one RefitEngine call: arguments and result
  copy_call,                  \* one CanCopy / CopyTensor call of the host
  trt_state,                  \* TensorrtShortFuncState of a precompiled node
  dds_output_allocator_maps_, \* output name -> OutputAllocator of that node
  bind_call                   \* the last ComputeFunc call, binding by binding

vars == <<cfg, fused_nodes, profile_min_shapes_, profile_max_shapes_,
          profile_opt_shapes_, disk, node, engine, context,
          input_shape_ranges_, weight_stripped_engine_refit_, history,
          compiled, bad_destroy, crashed, last_call, pc, locals, tensorrt_mu_,
          api_lock, refit_call, copy_call, trt_state,
          dds_output_allocator_maps_, bind_call>>

\* the locals of one ComputeFunc call
NewBinding(in, dds) ==
  [status |-> "run", message |-> [text |-> "", mentions |-> ""],
   trace |-> <<>>, scratch_buffers |-> <<>>, address |-> EmptyMap,
   output_tensors |-> EmptyMap, output_dim_sizes |-> EmptyMap,
   holds_result |-> {}, dds |-> dds, known |-> DOMAIN dds, in |-> in,
   input_index |-> EmptyMap, output_index |-> EmptyMap,
   shape_tensor_values |-> {}]

\* lines 1905-1926: engine tensor name -> kernel context index / element
\* type, when the fused node has an input or output of every engine name
IndexMap(tensors) ==
  [n \in {tensors[k].name : k \in 1 .. Len(tensors)} |->
     (CHOOSE k \in 1 .. Len(tensors) : tensors[k].name = n) - 1]

TypeMap(tensors) ==
  [n \in {tensors[k].name : k \in 1 .. Len(tensors)} |->
     (CHOOSE t \in {tensors[k] : k \in 1 .. Len(tensors)} : t.name = n).type]

\* TensorrtShortFuncState and the build and run settings ComputeFunc reads.
\* inputs and outputs are the engine's tensors, kernel_inputs and
\* kernel_outputs those of the host kernel context, in index order.
ShortFuncState(major, sync, share, inputs, outputs) ==
  [major |-> major, sync_stream_after_enqueue_ |-> sync,
   context_memory_sharing_enable |-> share, inputs |-> inputs, outputs |-> outputs,
   kernel_inputs |-> inputs, kernel_outputs |-> outputs,
   input_indexes |-> IndexMap(inputs), output_indexes |-> IndexMap(outputs),
   output_types |-> TypeMap(outputs),
   mem_size |-> 0, prior_max |-> 0, max_ctx_mem_size_ |-> 0,
   cuda_graph_enable_ |-> FALSE, min_num_runs_before_cuda_graph_capture_ |-> 1,
   regular_run_count_before_graph_capture_ |-> 0, graph_captured |-> FALSE]

\* lines 1877-1896: with context memory sharing, the engine's device memory
\* size is folded into max_ctx_mem_size_, which held prior from the nodes
\* compiled before; mem_size is what getDeviceMemorySize returns
CreateContext(st, mem_size, prior) ==
  [st EXCEPT !.mem_size = mem_size, !.prior_max = prior,
             !.max_ctx_mem_size_ =
                IF st.context_memory_sharing_enable /\ mem_size > prior
                THEN mem_size ELSE prior]

NoShortFuncState == ShortFuncState(10, TRUE, FALSE, <<>>, <<>>)

NoBinding ==
  [NewBinding([inputs |-> <<>>, outputs |-> <<>>, fault |-> "none"], EmptyMap)
     EXCEPT !.status = "none"]

\* the fused node the model follows is the one of the first pair
network == fused_nodes[1].net
IsCtxNode == fused_nodes[1].ctx

\* the fused node's state as the record the stages work on
NodeState ==
  [engine |-> engine, context |-> context, ranges |-> input_shape_ranges_,
   disk |-> disk, refit |-> weight_stripped_engine_refit_,
   bad_destroy |-> bad_destroy]

\* lines 1328-1329: the locals of a compute call, with what the call has done
NewLocals ==
  [status |-> "run", use_stripped |-> FALSE, engine_update |-> FALSE,
   context_update |-> FALSE, loaded |-> FALSE, folded |-> FALSE,
   folded_from |-> EmptyMap, shapes |-> EmptyMap, released |-> FALSE, build_invoked |-> FALSE,
   engine_built |-> FALSE, context_created |-> FALSE, refit_reached |-> FALSE,
   wrote_engine |-> FALSE, wrote_profile |-> FALSE,
   capture_begun |-> FALSE, enqueue |-> "not called", synced |-> FALSE,
   finalized |-> FALSE, capture_ended |-> FALSE]

LocalNames == DOMAIN NewLocals

(***************************************************************************)
(* compute_func of CreateNodeComputeInfoFromGraph (lines 1301-1845), as a  *)
(* chain of stages over a record s of the fused node's state and the       *)
(* locals of the call.  s.status is "run" until a stage returns.  fault    *)
(* names the external call that fails during this compute call, if any.    *)
(***************************************************************************)
\* lines 1372-1378 (and 991-997): which engine cache file is used
PathStage(c, s) ==
  LET stripped == c.weight_stripped_engine_enable /\ s.disk.engine.state = "absent"
  IN [s EXCEPT !.use_stripped = stripped, !.refit = @ \/ stripped]

EngineCacheFile(s) == IF s.use_stripped THEN s.disk.stripped ELSE s.disk.engine

\* lines 1380-1436: load the serialized engine when none is held
LoadStage(c, s, fault) ==
  IF ~(c.engine_cache_enable /\ ~s.engine.live) THEN s
  ELSE LET file == EngineCacheFile(s)
           profile_file == s.disk.profile.state # "absent"
           s1 == [s EXCEPT !.ranges = DeserializeProfileV2(s.disk.profile.rows),
                           !.loaded = TRUE]
       IN
       IF file.state # "absent" /\ ~c.engine_decryption_enable /\ profile_file
       THEN IF file.state = "corrupt" \/ fault = "deserializeCudaEngine"
            THEN [AssignEngine(s1, NullEngine) EXCEPT
                    !.status = "error_cache_deserialize"]
            ELSE [AssignEngine(s1, LiveEngine(file.built_for)) EXCEPT
                    !.context_update = TRUE]
       ELSE IF c.engine_decryption_enable /\ s.disk.encrypted.state # "absent"
               /\ profile_file
       THEN IF fault = "engine_decryption"
            THEN [s1 EXCEPT !.status = "error_decrypt"]
            ELSE IF s.disk.encrypted.state = "corrupt"
                    \/ fault = "deserializeCudaEngine"
            THEN [AssignEngine(s1, NullEngine) EXCEPT
                    !.status = "error_cache_deserialize"]
            ELSE [AssignEngine(s1, LiveEngine(s.disk.encrypted.built_for)) EXCEPT
                    !.context_update = TRUE]
       ELSE s

\* lines 1438-1452: fold the observed shapes, setting engine_update
FoldStageMut_AlwaysUpdate(net, s, obs) ==
  IF s.status # "run" THEN s
  ELSE [s EXCEPT !.folded_from = s.ranges, !.folded = TRUE, !.shapes = obs,
                 !.ranges = FoldInputs(s.ranges, net, obs, 1),
                 !.engine_update = TRUE]

FoldStage(net, s, obs) ==
  IF s.status # "run" THEN s
  ELSE LET r == FoldInputs(s.ranges, net, obs, 1) IN
       [s EXCEPT !.folded_from = s.ranges, !.folded = TRUE, !.shapes = obs,
                 !.ranges = r, !.engine_update = (r # s.ranges)]

\* lines 1455-1458: release the handles held before the rebuild
ReleaseMut_EngineFirst(s) ==
  IF s.status # "run" \/ ~s.engine_update THEN s
  ELSE [ResetContext(ResetEngine(s)) EXCEPT !.released = TRUE]

ReleaseForRebuild(s) ==
  IF s.status # "run" \/ ~s.engine_update THEN s
  ELSE [ResetEngine(ResetContext(s)) EXCEPT !.released = TRUE]

\* lines 1546-1559: load the timing cache file or create a fresh cache
LoadTimingStage(c, s, fault) ==
  IF s.status # "run" \/ ~s.engine_update \/ ~c.timing_cache_enable THEN s
  ELSE IF fault = "createTimingCache"
       THEN [s EXCEPT !.status = "error_timing_create"]
       ELSE s

\* lines 1567-1593: build the engine and deserialize it
BuildStage(s, fault) ==
  IF s.status # "run" \/ ~s.engine_update THEN s
  ELSE IF fault = "buildSerializedNetwork"
       THEN [s EXCEPT !.build_invoked = TRUE, !.status = "error_build"]
       ELSE IF fault = "deserializeCudaEngine"
       THEN [AssignEngine(s, NullEngine) EXCEPT
               !.build_invoked = TRUE, !.status = "error_deserialize"]
       ELSE [AssignEngine(s, LiveEngine(s.ranges)) EXCEPT
               !.build_invoked = TRUE, !.engine_built = TRUE]

\* lines 1598-1616: write the engine cache file
WriteEngineFile(c, s, s1, fault) ==
  IF c.engine_decryption_enable
  THEN IF c.engine_encryption
       THEN IF fault = "engine_encryption"
            THEN [s1 EXCEPT !.status = "error_encrypt"]
            ELSE [s1 EXCEPT !.disk.encrypted = EngineFile(s.engine.built_for),
                            !.wrote_engine = TRUE]
       ELSE s1
  ELSE IF s.use_stripped
       THEN [s1 EXCEPT !.disk.stripped = EngineFile(s.engine.built_for),
                       !.wrote_engine = TRUE]
       ELSE [s1 EXCEPT !.disk.engine = EngineFile(s.engine.built_for),
                       !.wrote_engine = TRUE]

\* a cache write that leaves the profile file as it was
WriteCacheMut_EngineOnly(c, s, fault) ==
  IF s.status # "run" \/ ~s.engine_update \/ ~c.engine_cache_enable THEN s
  ELSE WriteEngineFile(c, s, s, fault)

\* lines 1594-1616: write the profile and engine cache files
WriteCacheStage(c, s, fault) ==
  IF s.status # "run" \/ ~s.engine_update \/ ~c.engine_cache_enable THEN s
  ELSE WriteEngineFile(c, s, [s EXCEPT !.disk.profile = ProfileFile(s.ranges),
                                       !.wrote_profile = TRUE], fault)

\* lines 1618-1637: serialize and save the timing cache; context_update = true
SaveTimingStage(c, s, fault) ==
  IF s.status # "run" \/ ~s.engine_update THEN s
  ELSE IF c.timing_cache_enable /\ fault = "timing_serialize"
       THEN [s EXCEPT !.status = "error_timing_serialize"]
       ELSE [s EXCEPT !.disk.timing = @ \/ c.timing_cache_enable,
                      !.context_update = TRUE]

\* lines 1639-1650: refit of a weight-stripped engine, path_check = false
RefitStage(c, s, fault) ==
  IF s.status # "run" \/ ~s.engine_update \/ ~s.refit THEN s
  ELSE LET r == RefitEngine(c.trt_major, c.model_path_, c.onnx_model_folder_path_,
                            FALSE, s.disk.onnx_model, TRUE, fault)
       IN IF r.status # "ok"
          THEN [s EXCEPT !.status = r.status, !.refit_reached = r.reached]
          ELSE [s EXCEPT !.refit_reached = TRUE,
                         !.disk.engine = IF r.wrote THEN EngineFile(s.engine.built_for)
                                         ELSE @]

\* lines 1653-1670: create the execution context
ContextStage(s, fault) ==
  IF s.status # "run" \/ ~s.context_update THEN s
  ELSE IF fault = "createExecutionContext"
       THEN [AssignContext(s, "null") EXCEPT !.status = "error_context"]
       ELSE [AssignContext(s, "live") EXCEPT !.context_created = TRUE]

\* the profiles of the engine span the shapes the call was given, in every
\* dimension the engine was built with a range for
ShapesFit(built_for, shapes) ==
  \A n \in DOMAIN built_for : \A j \in DOMAIN built_for[n] :
    \E i \in 1 .. Len(built_for[n][j]) :
      /\ built_for[n][j][i][1] <= shapes[n][j + 1]
      /\ shapes[n][j + 1] <= built_for[n][j][i][2]

\* a binding that hands any shape to the context
BindMut_AnyShape(s) == s

\* lines 1688-1757 with 321-331: the inputs are bound; setInputShape returns
\* false for a shape outside the profiles of the engine
BindStage(s) ==
  IF s.status = "run" /\ ~ShapesFit(s.engine.built_for, s.shapes)
  THEN [s EXCEPT !.status = "error_bind"]
  ELSE s

\* lines 1759-1763: CaptureBegin when the graph is enabled, allowed and not yet
\* captured.  cap = [allowed, captured] is what IsGraphCaptureAllowed() and
\* IsGraphCaptured(0) return during the call
CaptureBeginStage(c, s, cap) ==
  IF s.status # "run" THEN s
  ELSE [s EXCEPT !.capture_begun =
                   c.cuda_graph_enable_ /\ cap.allowed /\ ~cap.captured]

\* an enqueue whose result is not looked at
EnqueueMut_IgnoreResult(s, fault) ==
  [s EXCEPT !.enqueue = IF fault = "enqueueV3" THEN "false" ELSE "true"]

\* lines 1765-1768 and 2080-2083: enqueueV3, returning when it fails
EnqueueStage(s, fault) ==
  IF s.status # "run" THEN s
  ELSE IF fault = "enqueueV3"
  THEN [s EXCEPT !.enqueue = "false", !.status = "error_enqueue"]
  ELSE [s EXCEPT !.enqueue = "true"]

\* lines 1784-1786 and 2099-2101: cudaStreamSynchronize under the policy
SyncStage(c, s) ==
  IF s.status # "run" THEN s
  ELSE [s EXCEPT !.synced = c.sync_stream_after_enqueue_]

\* lines 1788-1827 and 2103-2142: bind the DDS outputs and cast
FinalizeStage(s) ==
  IF s.status # "run" THEN s ELSE [s EXCEPT !.finalized = TRUE]

\* lines 1829-1842: CaptureEnd and replay when the capture is allowed
CaptureEndStage(c, s, cap) ==
  IF s.status # "run" THEN s
  ELSE [s EXCEPT !.capture_ended =
                   c.cuda_graph_enable_ /\ ~cap.captured /\ cap.allowed]

Returned(s) == IF s.status = "run" THEN [s EXCEPT !.status = "ok"] ELSE s

\* lines 1672-1845: bind, enqueueV3 and finalize.  trt_engine and trt_context
\* are dereferenced without a null check; ub is what the build does with a
\* null handle
RunStage(c, s, fault, ub, cap) ==
  IF s.status # "run" THEN s
  ELSE IF ~s.engine.live \/ s.context # "live"
       THEN [s EXCEPT !.status = ub]
       ELSE Returned(
              CaptureEndStage(c,
                FinalizeStage(
                  SyncStage(c,
                    EnqueueStage(CaptureBeginStage(c, BindStage(s), cap), fault))),
                cap))

\* the regenerate branch up to the build, and after it
BeforeBuild(c, s, fault) == LoadTimingStage(c, ReleaseForRebuild(s), fault)

AfterBuild(c, s, fault, ub, cap) ==
  RunStage(c,
    ContextStage(
      RefitStage(c, SaveTimingStage(c, WriteCacheStage(c, s, fault), fault), fault),
      fault),
    fault, ub, cap)

compute_func(c, net, s, obs, fault, ub, cap) ==
  AfterBuild(c,
    BuildStage(
      BeforeBuild(c, FoldStage(net, LoadStage(c, PathStage(c, s), fault), obs), fault),
      fault),
    fault, ub, cap)

(***************************************************************************)
(* Compile: the two per-pair functions and the loop over the pairs.        *)
(* A per-pair function works on a record s of its locals trt_engine and    *)
(* trt_context (fields engine, context), the cache directory and the       *)
(* provider members it writes.                                             *)
(***************************************************************************)
NoCallbacks == [create |-> FALSE, destroy |-> FALSE, compute |-> FALSE]
AllCallbacks == [create |-> TRUE, destroy |-> TRUE, compute |-> TRUE]

CompileLocals(d, refit, bad) ==
  [engine |-> NullEngine, context |-> "null", disk |-> d, refit |-> refit,
   bad_destroy |-> bad, status |-> "run", use_stripped |-> FALSE,
   build_invoked |-> FALSE, loaded |-> FALSE, disk_before |-> d,
   wrote_engine |-> FALSE, wrote_profile |-> FALSE]

\* the locals are destroyed in reverse order of declaration when the
\* function returns: trt_context (line 1855 / 963), then trt_engine (1854 / 962)
DestroyLocals(s) == ResetEngine(ResetContext(s))

\* CompareProfiles: TRUE when the profile cache is missing or differs from
\* the explicit ranges
CompareProfiles(profile_file, explicit) ==
  profile_file.state = "absent"
    \/ DeserializeProfileV2(profile_file.rows) # explicit

\* a compile-time cache write that leaves the profile file as it was
CompileWriteMut_KeepProfile(c, setup, s, fault) ==
  IF s.status # "run" \/ ~c.engine_cache_enable THEN s
  ELSE [s EXCEPT !.wrote_engine = ~c.engine_decryption_enable,
                 !.disk.engine = IF ~c.engine_decryption_enable
                                 THEN EngineFile(setup.explicit) ELSE @]

\* lines 1109-1132: write the profile and engine cache files of a build
CompileWriteCache(c, setup, s, fault) ==
  IF s.status # "run" \/ ~c.engine_cache_enable THEN s
  ELSE IF c.engine_decryption_enable /\ c.engine_encryption
            /\ fault = "engine_encryption"
  THEN [s EXCEPT !.status = "error_encrypt",
                 !.wrote_profile = setup.has_explicit_profile,
                 !.disk.profile = IF setup.has_explicit_profile
                                  THEN ProfileFile(setup.explicit) ELSE @]
  ELSE [s EXCEPT
          !.wrote_profile = setup.has_explicit_profile,
          !.wrote_engine = ~c.engine_decryption_enable \/ c.engine_encryption,
          !.disk.profile = IF setup.has_explicit_profile
                           THEN ProfileFile(setup.explicit) ELSE @,
          !.disk.encrypted = IF c.engine_decryption_enable /\ c.engine_encryption
                             THEN EngineFile(setup.explicit) ELSE @,
          !.disk.stripped = IF ~c.engine_decryption_enable /\ s.use_stripped
                            THEN EngineFile(setup.explicit) ELSE @,
          !.disk.engine = IF ~c.engine_decryption_enable /\ ~s.use_stripped
                          THEN EngineFile(setup.explicit) ELSE @]

\* lines 1133-1145: serialize and save the timing cache of a build
CompileSaveTiming(c, s, fault) ==
  IF s.status # "run" \/ ~c.timing_cache_enable THEN s
  ELSE IF fault = "timing_serialize"
       THEN [s EXCEPT !.status = "error_timing_serialize"]
       ELSE [s EXCEPT !.disk.timing = TRUE]

\* lines 1059-1108: build the engine at compile time
CompileBuild(c, setup, s, fault) ==
  IF c.timing_cache_enable /\ fault = "createTimingCache"
  THEN [s EXCEPT !.status = "error_timing_create"]
  ELSE IF fault = "buildSerializedNetwork"
  THEN [s EXCEPT !.status = "error_build", !.build_invoked = TRUE]
  ELSE IF fault = "deserializeCudaEngine"
  THEN [s EXCEPT !.status = "error_deserialize", !.build_invoked = TRUE]
  ELSE [s EXCEPT !.engine = LiveEngine(setup.explicit), !.build_invoked = TRUE]

\* a compile that never reads the cache
CompileEngineMut_AlwaysBuild(c, setup, s, fault) ==
  CompileSaveTiming(c,
    CompileWriteCache(c, setup, CompileBuild(c, setup, s, fault), fault),
    fault)

\* lines 1004-1168: load the cached engine or build it, under GetApiLock()
CompileEngineStage(c, setup, s, fault) ==
  LET engine_update == setup.has_explicit_profile /\ c.engine_cache_enable
                         /\ CompareProfiles(s.disk.profile, setup.explicit)
  IN
  IF c.engine_cache_enable /\ ~c.engine_decryption_enable
       /\ EngineCacheFile(s).state # "absent" /\ ~engine_update
  THEN IF EngineCacheFile(s).state = "corrupt" \/ fault = "deserializeCudaEngine"
       THEN [s EXCEPT !.status = "error_cache_deserialize"]
       ELSE [s EXCEPT !.engine = LiveEngine(EngineCacheFile(s).built_for),
                      !.loaded = TRUE]
  ELSE IF c.engine_decryption_enable /\ c.engine_cache_enable
            /\ s.disk.encrypted.state # "absent" /\ ~engine_update
  THEN IF fault = "engine_decryption" THEN [s EXCEPT !.status = "error_decrypt"]
       ELSE IF s.disk.encrypted.state = "corrupt" \/ fault = "deserializeCudaEngine"
       THEN [s EXCEPT !.status = "error_cache_deserialize"]
       ELSE [s EXCEPT !.engine = LiveEngine(s.disk.encrypted.built_for),
                      !.loaded = TRUE]
  ELSE CompileSaveTiming(c,
         CompileWriteCache(c, setup, CompileBuild(c, setup, s, fault), fault),
         fault)

\* lines 1170-1181: refit at compile time, path_check = false
CompileRefitStage(c, s, fault) ==
  IF s.status # "run" \/ ~s.refit THEN s
  ELSE LET r == RefitEngine(c.trt_major, c.model_path_, c.onnx_model_folder_path_,
                            FALSE, s.disk.onnx_model, TRUE, fault)
       IN IF r.status # "ok" THEN [s EXCEPT !.status = r.status]
          ELSE [s EXCEPT !.disk.engine = IF r.wrote
                                         THEN EngineFile(s.engine.built_for)
                                         ELSE @]

\* lines 1183-1210: build the execution context
CompileContextStage(s, fault) ==
  IF s.status # "run" THEN s
  ELSE IF fault = "createExecutionContext"
       THEN [s EXCEPT !.status = "error_context"]
       ELSE [s EXCEPT !.context = "live"]

\* what a per-pair function hands back: its status, the handles it stored in
\* engines_ / contexts_, the store, and what it set in *node_compute_funcs
PairReturn(s, r, setup, ranges, callbacks) ==
  [status |-> IF s.status = "run" THEN "ok" ELSE s.status,
   setup |-> setup, stored |-> s.status = "run",
   engine |-> r.engine, context |-> r.context, ranges |-> ranges,
   disk |-> s.disk, refit |-> s.refit, bad_destroy |-> r.bad_destroy,
   build_invoked |-> s.build_invoked, loaded |-> s.loaded,
   disk_before |-> s.disk_before, wrote_engine |-> s.wrote_engine,
   wrote_profile |-> s.wrote_profile, callbacks |-> callbacks]

\* on success the locals are moved into engines_ / contexts_ (lines 1929-1930
\* and 1236-1237) and the implicit ranges into input_shape_ranges_ (line
\* 1241); on an error return the locals are destroyed and nothing is stored
PairResult(s, setup, ranges, callbacks) ==
  PairReturn(s, IF s.status = "run" THEN s ELSE DestroyLocals(s),
             setup, IF s.status = "run" THEN ranges ELSE EmptyMap, callbacks)

\* a set-up for the path that runs none
NoSetup ==
  [has_explicit_profile |-> FALSE, has_dynamic_shape |-> FALSE,
   trt_profiles |-> <<>>, explicit |-> EmptyMap, implicit |-> EmptyMap,
   status |-> "ok", missing |-> {}, config_profiles |-> <<>>]

\* a store that also receives the ranges of the explicit profiles
RuntimeMut_ExplicitToo(setup) == setup.implicit @@ setup.explicit

\* line 1241: input_shape_ranges_[fused_node.Name()] = input_implicit_shape_ranges
RuntimeRanges(setup) == setup.implicit

\* a compile that makes the engine whatever the profiles are
GraphCompileMut_EngineAlways(c, setup, s, fault) ==
  IF setup.status = "error" THEN [s EXCEPT !.status = "error_profile"]
  ELSE CompileContextStage(
         CompileRefitStage(c, CompileEngineStage(c, setup, s, fault), fault),
         fault)

\* CreateNodeComputeInfoFromGraph (lines 663-1848).  The function ends with
\* "return nullptr" (line 1847) and never writes *node_compute_funcs: the
\* compute_info record of lines 1271-1301 is a local of the disabled block.
GraphCompileStages(c, setup, s, fault) ==
  IF setup.status = "error" THEN [s EXCEPT !.status = "error_profile"]
  ELSE IF setup.has_dynamic_shape THEN s
  ELSE CompileContextStage(
         CompileRefitStage(c, CompileEngineStage(c, setup, s, fault), fault),
         fault)

\* lines 991-997: which engine cache file the compile uses
CompilePathStage(c, s) ==
  [s EXCEPT !.use_stripped = c.weight_stripped_engine_enable
                               /\ s.disk.engine.state = "absent",
            !.refit = @ \/ (c.weight_stripped_engine_enable
                              /\ s.disk.engine.state = "absent")]

GraphReturn(c, setup, s, fault) ==
  PairResult(GraphCompileStages(c, setup,
                                IF setup.status = "error" THEN s
                                ELSE CompilePathStage(c, s), fault),
             setup, RuntimeRanges(setup), NoCallbacks)

CreateNodeComputeInfoFromGraph(c, net, pmin, pmax, popt, d, refit, bad, fault) ==
  GraphReturn(c, ProfileSetup(net, pmin, pmax, popt),
              CompileLocals(d, refit, bad), fault)

\* TensorRTCacheModelHandler::GetEpContextFromGraph: deserializes the engine
\* the EP-context node carries
GetEpContextFromGraph(s, fault) ==
  IF fault = "ep_context_invalid" THEN [s EXCEPT !.status = "error_ep_context"]
  ELSE IF fault = "ep_context_refit"
  THEN [s EXCEPT !.engine = LiveEngine(EmptyMap), !.status = "error_ep_context"]
  ELSE [s EXCEPT !.engine = LiveEngine(EmptyMap), !.loaded = TRUE]

\* lines 1873-1903: build the execution context of the precompiled engine
PrecompiledContextStage(s, fault) ==
  IF s.status # "run" THEN s
  ELSE IF fault = "createExecutionContext"
       THEN [s EXCEPT !.status = "error_context"]
       ELSE [s EXCEPT !.context = "live"]

PrecompiledReturn(s) ==
  PairResult(s, NoSetup, EmptyMap,
             IF s.status = "run" THEN AllCallbacks ELSE NoCallbacks)

\* CreateNodeComputeInfoFromPrecompiledEngine (lines 1850-2163)
CreateNodeComputeInfoFromPrecompiledEngine(d, refit, bad, fault) ==
  PrecompiledReturn(
    PrecompiledContextStage(
      GetEpContextFromGraph(CompileLocals(d, refit, bad), fault), fault))

\* lines 495-527: the Compile lambda.  pairs[j] = [ctx, net]; faults[j] is
\* the fault that strikes pair j.  acc.info is node_compute_info
CompileStep(acc, ret, j) ==
  [acc EXCEPT !.results = Append(@, ret),
              !.info[j] = ret.callbacks,
              !.disk = ret.disk, !.refit = ret.refit,
              !.bad_destroy = ret.bad_destroy,
              !.status = IF ret.status # "ok" THEN "error" ELSE @]

\* one iteration of the loop of line 503: pair j is compiled unless an
\* earlier pair made the lambda return
CompilePair(c, pmin, pmax, popt, pair, fault, j, acc) ==
  IF acc.status # "running" THEN acc
  ELSE CompileStep(acc,
         IF pair.ctx
         THEN CreateNodeComputeInfoFromPrecompiledEngine(
                acc.disk, acc.refit, acc.bad_destroy, fault)
         ELSE CreateNodeComputeInfoFromGraph(
                c, pair.net, pmin, pmax, popt,
                acc.disk, acc.refit, acc.bad_destroy, fault),
         j)

CompileEnd(acc) == [acc EXCEPT !.status = IF @ = "running" THEN "ok" ELSE @]

Compile(c, pmin, pmax, popt, pairs, faults, d, refit, bad) ==
  LET loop[j \in 0 .. Len(pairs)] ==
        IF j = 0
        THEN [status |-> "running", results |-> <<>>,
              info |-> [k \in 1 .. Len(pairs) |-> NoCallbacks],
              disk |-> d, refit |-> refit, bad_destroy |-> bad]
        ELSE CompilePair(c, pmin, pmax, popt, pairs[j], faults[j], j, loop[j - 1])
  IN CompileEnd(loop[Len(pairs)])

\* the cache directory the compile-time engine stage of a pair met and
\* left; nothing when the stage did not run
StageDisk(ret, pair, d) ==
  IF pair.ctx \/ ret.setup.has_dynamic_shape THEN EmptyMap ELSE d

\* what the host sees of a Compile call
PairView(ret, pair) ==
  [ctx |-> pair.ctx, net |-> pair.net, status |-> ret.status,
   has_explicit_profile |-> ret.setup.has_explicit_profile,
   missing |-> ret.setup.missing,
   config_profiles |-> ret.setup.config_profiles,
   build_invoked |-> ret.build_invoked, loaded |-> ret.loaded,
   explicit |-> ret.setup.explicit,
   has_dynamic_shape |-> ret.setup.has_dynamic_shape,
   num_profiles |-> Len(ret.setup.trt_profiles),
   disk_before |-> StageDisk(ret, pair, ret.disk_before),
   disk_after |-> StageDisk(ret, pair, ret.disk),
   wrote_engine |-> ret.wrote_engine, wrote_profile |-> ret.wrote_profile]

CompileView(acc, pairs) ==
  [status |-> acc.status, info |-> acc.info,
   results |-> [j \in 1 .. Len(acc.results) |-> PairView(acc.results[j], pairs[j])]]

NotCompiled == [status |-> "none", info |-> <<>>, results |-> <<>>]

(***************************************************************************)
(* The inputs the model draws.                                             *)
(***************************************************************************)
\* model_path_ and onnx_model_folder_path_ of the provider
ModelPath == [absolute |-> FALSE, parts |-> <<"m">>]
ModelFolder == [absolute |-> TRUE, parts |-> <<"d">>]

\* Provider options.  Decryption is only consulted with the engine cache on,
\* the encryption callback only with decryption on, and the builder major
\* only by the refit of a weight-stripped engine.  The graph-capture and
\* synchronization policies are read after the engine is made, and are
\* varied for the configurations without caches and the networks of static
\* shape.
Options ==
  {[model_path_ |-> ModelPath, onnx_model_folder_path_ |-> ModelFolder] @@ o :
     o \in {c \in [engine_cache_enable : BOOLEAN,
                   engine_decryption_enable : BOOLEAN,
                   engine_encryption : BOOLEAN,
                   timing_cache_enable : BOOLEAN,
                   weight_stripped_engine_enable : BOOLEAN,
                   cuda_graph_enable_ : BOOLEAN,
                   sync_stream_after_enqueue_ : BOOLEAN,
                   trt_major : {8, 10}] :
              /\ c.engine_decryption_enable => c.engine_cache_enable
              /\ c.engine_encryption => c.engine_decryption_enable
              /\ c.trt_major = 8 =>
                   c.weight_stripped_engine_enable /\ ~c.engine_cache_enable
              /\ c.weight_stripped_engine_enable =>
                   ~c.engine_decryption_enable /\ ~c.timing_cache_enable
              /\ c.timing_cache_enable => ~c.engine_decryption_enable
              /\ (c.cuda_graph_enable_ \/ ~c.sync_stream_after_enqueue_) =>
                   /\ ~c.engine_cache_enable /\ ~c.timing_cache_enable
                   /\ ~c.weight_stripped_engine_enable}}

\* the options of a node whose engine is precompiled: none of them is read
DefaultOptions ==
  CHOOSE c \in Options :
    /\ ~c.engine_cache_enable /\ ~c.timing_cache_enable
    /\ ~c.weight_stripped_engine_enable
    /\ ~c.cuda_graph_enable_ /\ c.sync_stream_after_enqueue_

\* the options a node with a precompiled engine reads
RunOptions ==
  {c \in Options : /\ ~c.engine_cache_enable /\ ~c.timing_cache_enable
                   /\ ~c.weight_stripped_engine_enable}

\* what IsGraphCaptureAllowed() and IsGraphCaptured(0) answer during a call
NoCapture == [allowed |-> FALSE, captured |-> FALSE]

CaptureStates(c) ==
  IF c.cuda_graph_enable_ THEN [allowed : BOOLEAN, captured : BOOLEAN]
  ELSE {NoCapture}

\* the values the dynamic dimension of a network is observed with
DimValues(net) ==
  IF \E k \in 1 .. Len(net) : DynamicDims(net[k]) # {} THEN 1 .. MaxDim ELSE {2}

\* the null dereference is met by a call no fault ends earlier
NullDerefFor(fault) == IF fault = "none" THEN {"crash", "undefined"} ELSE {"crash"}

NoHistory == [calls |-> 0, rebuilds |-> 0, seen_min |-> 0, seen_max |-> 0]

Observe(h, v, rebuilt) ==
  [calls |-> h.calls + 1,
   rebuilds |-> h.rebuilds + (IF rebuilt THEN 1 ELSE 0),
   seen_min |-> IF h.calls = 0 THEN v ELSE Min2(h.seen_min, v),
   seen_max |-> IF h.calls = 0 THEN v ELSE Max2(h.seen_max, v)]

DynInput(n) == [name |-> n, is_shape |-> FALSE, dims |-> <<-1, 2>>]
StaticInput(n) == [name |-> n, is_shape |-> FALSE, dims |-> <<2, 2>>]
ShapeInput(n) == [name |-> n, is_shape |-> TRUE, dims |-> <<2>>]

\* one explicit profile for the inputs named in ns
ProfileMap(ns, v) == [n \in ns |-> <<<<v, 2>>>>]

\* the shape of every input when the dynamic dimension is observed as v
ObsFor(net, v) ==
  [n \in {net[k].name : k \in 1 .. Len(net)} |->
     LET inp == CHOOSE i \in {net[k] : k \in 1 .. Len(net)} : i.name = n
     IN [j \in 1 .. NbDims(inp) |-> IF inp.dims[j] = -1 THEN v ELSE inp.dims[j]]]

\* the store an earlier session left in the cache for the dynamic network
PrevRanges == ("x" :> (0 :> <<<<2, 3, 3>>>>))

\* the store an earlier session left for the explicit profile min 1, max 3,
\* opt 2 of the dynamic network
SameRanges ==
  ProfileSetup(<<DynInput("x")>>, ProfileMap({"x"}, 1), ProfileMap({"x"}, 3),
               ProfileMap({"x"}, 2)).explicit

CacheFiles(e, st, en, pr) ==
  [engine |-> e, stripped |-> st, encrypted |-> en, profile |-> pr,
   timing |-> FALSE, onnx_model |-> TRUE]

\* the cache directories a session can start from
InitDisks(c) ==
  LET none == CacheFiles(NoEngineFile, NoEngineFile, NoEngineFile, NoProfileFile)
      pr == ProfileFile(PrevRanges)
      ef == EngineFile(PrevRanges)
      plain == {CacheFiles(ef, NoEngineFile, NoEngineFile, pr),
                CacheFiles(CorruptEngineFile, NoEngineFile, NoEngineFile, pr),
                CacheFiles(ef, NoEngineFile, NoEngineFile, NoProfileFile),
                CacheFiles(NoEngineFile, NoEngineFile, NoEngineFile, pr)}
      strip == {CacheFiles(NoEngineFile, ef, NoEngineFile, pr),
                [CacheFiles(NoEngineFile, ef, NoEngineFile, pr)
                   EXCEPT !.onnx_model = FALSE],
                [none EXCEPT !.onnx_model = FALSE]}
      crypt == {CacheFiles(NoEngineFile, NoEngineFile, ef, pr),
                CacheFiles(NoEngineFile, NoEngineFile, CorruptEngineFile, pr)}
  IN {none}
       \cup (IF c.engine_cache_enable /\ ~c.engine_decryption_enable
             THEN plain ELSE {})
       \cup (IF c.weight_stripped_engine_enable THEN strip ELSE {})
       \cup (IF c.engine_decryption_enable THEN crypt ELSE {})

\* the cache an earlier session with the same explicit profiles left
SameDisks(c, explicit) ==
  IF explicit /\ c.engine_cache_enable /\ ~c.engine_decryption_enable
  THEN {CacheFiles(EngineFile(SameRanges), NoEngineFile, NoEngineFile,
                   ProfileFile(SameRanges))}
  ELSE {}

\* the faults an external call of a compute call or of Compile can have
ComputeFaults ==
  {"none", "engine_decryption", "createTimingCache", "buildSerializedNetwork",
   "deserializeCudaEngine", "engine_encryption", "timing_serialize",
   "refitFromFile", "refitCudaEngine", "createExecutionContext", "enqueueV3"}

\* the faults of the calls a configuration makes: the others strike nothing
FaultsFor(c) ==
  {f \in ComputeFaults :
     /\ f = "engine_decryption" => c.engine_decryption_enable
     /\ f = "engine_encryption" => c.engine_encryption
     /\ f \in {"createTimingCache", "timing_serialize"} => c.timing_cache_enable
     /\ f \in {"refitFromFile", "refitCudaEngine"} =>
          c.weight_stripped_engine_enable}

CompileFaults(c, ctx) ==
  IF ctx THEN {"none", "ep_context_invalid", "ep_context_refit",
               "createExecutionContext"}
  ELSE FaultsFor(c) \ {"enqueueV3"}

\* one fault, or none, for each pair of a Compile call
FaultSeqs(c, pairs) ==
  {f \in [1 .. Len(pairs) ->
            ComputeFaults \cup {"ep_context_invalid", "ep_context_refit"}] :
     \A j \in 1 .. Len(pairs) : f[j] \in CompileFaults(c, pairs[j].ctx)}

NoCall ==
  [valid |-> FALSE, obs |-> 0, pre |-> EmptyMap, post |-> EmptyMap,
   pre_engine_live |-> FALSE, pre_context |-> "null",
   pre_disk |-> EmptyMap] @@ NewLocals

CallRecord(s0, s, v) ==
  [valid |-> TRUE, obs |-> v, pre |-> s0.ranges, post |-> s.ranges,
   pre_engine_live |-> s0.engine.live, pre_context |-> s0.context,
   pre_disk |-> s0.disk]
    @@ [n \in LocalNames |-> s[n]]

(***************************************************************************)
(* Specification Spec: one fused node, from Compile through its compute    *)
(* calls to the destruction of the provider, one call at a time.           *)
(***************************************************************************)
Init ==
  /\ cfg \in Options
  /\ \E p \in {<<FALSE, <<DynInput("x")>>, {}>>,
               <<FALSE, <<DynInput("x")>>, {"x"}>>,
               <<FALSE, <<DynInput("x")>>, {"y"}>>,
               <<FALSE, <<ShapeInput("x")>>, {}>>,
               <<FALSE, <<StaticInput("x")>>, {}>>,
               <<TRUE, <<StaticInput("x")>>, {}>>} :
       /\ fused_nodes = <<[ctx |-> p[1], net |-> p[2]]>>
       /\ profile_min_shapes_ = ProfileMap(p[3], 1)
       /\ profile_max_shapes_ = ProfileMap(p[3], 3)
       /\ profile_opt_shapes_ = ProfileMap(p[3], 2)
  /\ IsCtxNode => cfg \in RunOptions
  /\ (cfg.cuda_graph_enable_ \/ ~cfg.sync_stream_after_enqueue_) =>
       DimValues(network) = {2}
  /\ disk \in InitDisks(cfg) \cup SameDisks(cfg, DOMAIN profile_min_shapes_ # {})
  /\ node = "uncompiled"
  /\ engine = NullEngine
  /\ context = "null"
  /\ input_shape_ranges_ = EmptyMap
  /\ weight_stripped_engine_refit_ = FALSE
  /\ history = NoHistory
  /\ compiled = NotCompiled
  /\ bad_destroy = FALSE
  /\ crashed = FALSE
  /\ last_call = NoCall
  /\ pc = EmptyMap
  /\ locals = EmptyMap
  /\ tensorrt_mu_ = 0
  /\ api_lock = 0
  /\ refit_call = EmptyMap
  /\ copy_call = EmptyMap
  /\ trt_state = NoShortFuncState
  /\ dds_output_allocator_maps_ = EmptyMap
  /\ bind_call = NoBinding

\* store what Compile did for the pair of the fused node
StoreCompile(acc, pairs) ==
  /\ compiled' = CompileView(acc, pairs)
  /\ disk' = acc.disk
  /\ weight_stripped_engine_refit_' = acc.refit
  /\ bad_destroy' = acc.bad_destroy
  /\ engine' = acc.results[1].engine
  /\ context' = acc.results[1].context
  /\ input_shape_ranges_' = acc.results[1].ranges
  /\ node' = IF acc.status # "ok" THEN "failed"
             ELSE IF IsCtxNode THEN "ctx" ELSE "graph"

\* the host calls Compile with the (graph, fused node) pairs
CompileNode ==
  /\ node = "uncompiled"
  /\ \E faults \in FaultSeqs(cfg, fused_nodes) :
       StoreCompile(Compile(cfg, profile_min_shapes_, profile_max_shapes_,
                            profile_opt_shapes_, fused_nodes, faults,
                            disk, weight_stripped_engine_refit_, bad_destroy),
                    fused_nodes)
  /\ UNCHANGED <<cfg, fused_nodes, profile_min_shapes_, profile_max_shapes_,
                 profile_opt_shapes_, history, crashed, last_call, pc, locals,
                 tensorrt_mu_, api_lock, refit_call, copy_call, trt_state,
                 dds_output_allocator_maps_, bind_call>>

\* store the fused node's state after a compute call
StoreNode(s) ==
  /\ engine' = s.engine
  /\ context' = s.context
  /\ input_shape_ranges_' = s.ranges
  /\ disk' = s.disk
  /\ weight_stripped_engine_refit_' = s.refit
  /\ bad_destroy' = s.bad_destroy

\* store what a compute call did and what it observed
StoreCall(s0, s, v) ==
  /\ StoreNode(s)
  /\ last_call' = CallRecord(s0, s, v)
  /\ history' = Observe(history, v, s.released)
  /\ crashed' = (s.status = "crash")

\* one call of the compute_func of a node compiled from a graph
Compute ==
  /\ node = "graph" /\ ~crashed /\ history.calls < MaxCalls
  /\ \E v \in DimValues(network), fault \in FaultsFor(cfg) :
     \E ub \in NullDerefFor(fault), cap \in CaptureStates(cfg) :
       StoreCall(NodeState,
                 compute_func(cfg, network, NodeState @@ NewLocals,
                              ObsFor(network, v), fault, ub, cap), v)
  /\ UNCHANGED <<cfg, fused_nodes, profile_min_shapes_, profile_max_shapes_,
                 profile_opt_shapes_, node, compiled, pc, locals, tensorrt_mu_,
                 api_lock, refit_call, copy_call, trt_state,
                 dds_output_allocator_maps_, bind_call>>

\* lines 1959-2162: ComputeFunc of a node created from a precompiled engine.
\* CaptureBegin (2076-2077) and CaptureEnd (2149-2156) are commented out
ComputeFunc(c, s, fault, ub, cap) ==
  IF ~s.engine.live \/ s.context # "live"
  THEN [s EXCEPT !.status = ub]
  ELSE Returned(FinalizeStage(SyncStage(c, EnqueueStage(s, fault))))

ComputeCtx ==
  /\ node = "ctx" /\ ~crashed /\ history.calls < MaxCalls
  /\ \E v \in DimValues(network), fault \in {"none", "enqueueV3"} :
     \E ub \in NullDerefFor(fault), cap \in CaptureStates(cfg) :
       StoreCall(NodeState,
                 ComputeFunc(cfg, NodeState @@ NewLocals, fault, ub, cap), v)
  /\ UNCHANGED <<cfg, fused_nodes, profile_min_shapes_, profile_max_shapes_,
                 profile_opt_shapes_, node, compiled, pc, locals, tensorrt_mu_,
                 api_lock, refit_call, copy_call, trt_state,
                 dds_output_allocator_maps_, bind_call>>

\* the provider is destroyed: its members go in reverse order of
\* declaration, contexts_ before engines_
StoreDestroyed(s) ==
  /\ engine' = s.engine
  /\ context' = s.context
  /\ bad_destroy' = s.bad_destroy

DestroyProvider ==
  /\ node \in {"graph", "ctx", "failed"} /\ ~crashed
  /\ StoreDestroyed(ResetEngine(ResetContext(NodeState)))
  /\ node' = "destroyed"
  /\ UNCHANGED <<cfg, fused_nodes, profile_min_shapes_, profile_max_shapes_,
                 profile_opt_shapes_, disk, input_shape_ranges_,
                 weight_stripped_engine_refit_, history, compiled, crashed,
                 last_call, pc, locals, tensorrt_mu_, api_lock, refit_call, copy_call, trt_state,
                 dds_output_allocator_maps_, bind_call>>

Next == CompileNode \/ Compute \/ ComputeCtx \/ DestroyProvider

Spec == Init /\ [][Next]_vars

(***************************************************************************)
(* Specification SpecCompile: one Compile call over an array of pairs.     *)
(***************************************************************************)
MaxPairs == 2

\* the networks of the subgraphs and the pairs Compile can be given
Networks ==
  {<<DynInput("a")>>, <<StaticInput("a")>>,
   <<DynInput("a"), DynInput("b")>>, <<DynInput("a"), ShapeInput("b")>>,
   <<StaticInput("a"), ShapeInput("b")>>}

Pairs ==
  {[ctx |-> TRUE, net |-> <<StaticInput("a")>>]}
    \cup {[ctx |-> FALSE, net |-> n] : n \in Networks}

PairArrays == UNION {[1 .. n -> Pairs] : n \in 1 .. MaxPairs}

\* the inputs the explicit profile options name
ProfileKeys == {{}, {"a"}, {"b"}, {"a", "b"}}

NoDisk == CacheFiles(NoEngineFile, NoEngineFile, NoEngineFile, NoProfileFile)

InitCompile ==
  /\ cfg = DefaultOptions
  /\ fused_nodes \in PairArrays
  /\ \E ns \in ProfileKeys :
       /\ profile_min_shapes_ = ProfileMap(ns, 1)
       /\ profile_max_shapes_ = ProfileMap(ns, 3)
       /\ profile_opt_shapes_ = ProfileMap(ns, 2)
  /\ disk = NoDisk
  /\ node = "uncompiled"
  /\ engine = NullEngine
  /\ context = "null"
  /\ input_shape_ranges_ = EmptyMap
  /\ weight_stripped_engine_refit_ = FALSE
  /\ history = NoHistory
  /\ compiled = NotCompiled
  /\ bad_destroy = FALSE
  /\ crashed = FALSE
  /\ last_call = NoCall
  /\ pc = EmptyMap
  /\ locals = EmptyMap
  /\ tensorrt_mu_ = 0
  /\ api_lock = 0
  /\ refit_call = EmptyMap
  /\ copy_call = EmptyMap
  /\ trt_state = NoShortFuncState
  /\ dds_output_allocator_maps_ = EmptyMap
  /\ bind_call = NoBinding

NextCompile == CompileNode

SpecCompile == InitCompile /\ [][NextCompile]_vars

(***************************************************************************)
(* Specification SpecRefit: one call of RefitEngine by any caller.         *)
(***************************************************************************)
Filenames ==
  [absolute : BOOLEAN, parts : {<<"m">>, <<"..", "m">>, <<"s", "m">>}]

Folders == [absolute : BOOLEAN, parts : {<<>>, <<"d">>, <<"..">>}]

InitRefit ==
  /\ cfg = DefaultOptions
  /\ fused_nodes = <<[ctx |-> FALSE, net |-> <<StaticInput("x")>>]>>
  /\ profile_min_shapes_ = EmptyMap
  /\ profile_max_shapes_ = EmptyMap
  /\ profile_opt_shapes_ = EmptyMap
  /\ disk = NoDisk
  /\ node = "uncompiled"
  /\ engine = NullEngine
  /\ context = "null"
  /\ input_shape_ranges_ = EmptyMap
  /\ weight_stripped_engine_refit_ = FALSE
  /\ history = NoHistory
  /\ compiled = NotCompiled
  /\ bad_destroy = FALSE
  /\ crashed = FALSE
  /\ last_call = NoCall
  /\ pc = EmptyMap
  /\ locals = EmptyMap
  /\ tensorrt_mu_ = 0
  /\ api_lock = 0
  /\ refit_call \in [major : {8, 10}, filename : Filenames, folder : Folders,
                     path_check : BOOLEAN, exists : BOOLEAN,
                     serialize : BOOLEAN, done : {FALSE}, fault : {"none"},
                     result : {RefitResult("none", FALSE, FALSE, FALSE)}]
  /\ copy_call = EmptyMap
  /\ trt_state = NoShortFuncState
  /\ dds_output_allocator_maps_ = EmptyMap
  /\ bind_call = NoBinding

RefitCall ==
  /\ ~refit_call.done
  /\ \E fault \in {"none", "refitFromFile", "refitCudaEngine"} :
       refit_call' =
         [refit_call EXCEPT
            !.done = TRUE,
            !.fault = fault,
            !.result = RefitEngine(refit_call.major, refit_call.filename,
                                   refit_call.folder, refit_call.path_check,
                                   refit_call.exists, refit_call.serialize,
                                   fault)]
  /\ UNCHANGED <<cfg, fused_nodes, profile_min_shapes_, profile_max_shapes_,
                 profile_opt_shapes_, disk, node, engine, context,
                 input_shape_ranges_, weight_stripped_engine_refit_, history,
                 compiled, bad_destroy, crashed, last_call, pc, locals,
                 tensorrt_mu_, api_lock, copy_call, trt_state,
                 dds_output_allocator_maps_, bind_call>>

NextRefit == RefitCall

SpecRefit == InitRefit /\ [][NextRefit]_vars

(***************************************************************************)
(* Specification SpecConc: the threads of the host run the compute         *)
(* function of one compiled fused node, and Compile of other subgraphs,    *)
(* on one provider instance.  A compute call is split at its lock          *)
(* acquisitions.                                                           *)
(***************************************************************************)
NumThreads == 2

Threads == 1 .. NumThreads

\* the fused node as a Compile call with no fault leaves it
CompiledAlone(pairs) ==
  Compile(DefaultOptions, EmptyMap, EmptyMap, EmptyMap, pairs, <<"none">>,
          NoDisk, FALSE, FALSE)

LocalsOf(s) == [n \in LocalNames |-> s[n]]

InitConc ==
  /\ cfg = DefaultOptions
  /\ fused_nodes \in {<<[ctx |-> FALSE, net |-> <<DynInput("x")>>]>>,
                      <<[ctx |-> TRUE, net |-> <<StaticInput("x")>>]>>}
  /\ profile_min_shapes_ = EmptyMap
  /\ profile_max_shapes_ = EmptyMap
  /\ profile_opt_shapes_ = EmptyMap
  /\ disk = NoDisk
  /\ node = (IF IsCtxNode THEN "ctx" ELSE "graph")
  /\ engine = CompiledAlone(fused_nodes).results[1].engine
  /\ context = CompiledAlone(fused_nodes).results[1].context
  /\ input_shape_ranges_ = CompiledAlone(fused_nodes).results[1].ranges
  /\ weight_stripped_engine_refit_ = FALSE
  /\ history = NoHistory
  /\ compiled = CompileView(CompiledAlone(fused_nodes), fused_nodes)
  /\ bad_destroy = FALSE
  /\ crashed = FALSE
  /\ last_call = NoCall
  /\ pc = [t \in Threads |-> "idle"]
  /\ locals = [t \in Threads |-> NewLocals]
  /\ tensorrt_mu_ = 0
  /\ api_lock = 0
  /\ refit_call = EmptyMap
  /\ copy_call = EmptyMap
  /\ trt_state = NoShortFuncState
  /\ dds_output_allocator_maps_ = EmptyMap
  /\ bind_call = NoBinding

\* a step of thread t that ends in s and moves t to label l; the locals of
\* a call end with the call
StoreStep(t, s, l) ==
  /\ StoreNode(s)
  /\ locals' = [locals EXCEPT ![t] = IF l = "idle" THEN NewLocals
                                      ELSE LocalsOf(s)]
  /\ pc' = [pc EXCEPT ![t] = l]
  /\ crashed' = (crashed \/ s.status = "crash")

\* line 1309: std::lock_guard<OrtMutex> lock(*(trt_state->tensorrt_mu_ptr))
ComputeEnter(t) ==
  /\ node = "graph" /\ ~crashed /\ pc[t] = "idle"
  /\ tensorrt_mu_ = 0
  /\ tensorrt_mu_' = t
  /\ pc' = [pc EXCEPT ![t] = "locked"]
  /\ locals' = [locals EXCEPT ![t] = NewLocals]
  /\ UNCHANGED <<cfg, fused_nodes, profile_min_shapes_, profile_max_shapes_,
                 profile_opt_shapes_, disk, node, engine, context,
                 input_shape_ranges_, weight_stripped_engine_refit_, history,
                 compiled, bad_destroy, crashed, last_call, api_lock,
                 refit_call, copy_call, trt_state,
                 dds_output_allocator_maps_, bind_call>>

\* lines 1310-1566: from the lock to the GetApiLock of the rebuild
ComputePrepare(t) ==
  /\ pc[t] = "locked"
  /\ \E v \in DimValues(network) :
       StoreStep(t,
         BeforeBuild(cfg,
           FoldStage(network,
             LoadStage(cfg, PathStage(cfg, NodeState @@ locals[t]), "none"),
             ObsFor(network, v)),
           "none"),
         "folded")
  /\ UNCHANGED <<cfg, fused_nodes, profile_min_shapes_, profile_max_shapes_,
                 profile_opt_shapes_, node, history, compiled, last_call,
                 tensorrt_mu_, api_lock, refit_call, copy_call, trt_state,
                 dds_output_allocator_maps_, bind_call>>

\* line 1454: if (engine_update)
ComputeBranch(t) ==
  /\ pc[t] = "folded"
  /\ pc' = [pc EXCEPT ![t] = IF locals[t].status = "run" /\ locals[t].engine_update
                             THEN "want_build" ELSE "tail"]
  /\ UNCHANGED <<cfg, fused_nodes, profile_min_shapes_, profile_max_shapes_,
                 profile_opt_shapes_, disk, node, engine, context,
                 input_shape_ranges_, weight_stripped_engine_refit_, history,
                 compiled, bad_destroy, crashed, last_call, locals,
                 tensorrt_mu_, api_lock, refit_call, copy_call, trt_state,
                 dds_output_allocator_maps_, bind_call>>

\* line 1570: auto lock = GetApiLock()
RebuildLockMut_NoApiLock(t) ==
  /\ pc[t] = "want_build"
  /\ api_lock' = t
  /\ pc' = [pc EXCEPT ![t] = "building"]
  /\ UNCHANGED <<cfg, fused_nodes, profile_min_shapes_, profile_max_shapes_,
                 profile_opt_shapes_, disk, node, engine, context,
                 input_shape_ranges_, weight_stripped_engine_refit_, history,
                 compiled, bad_destroy, crashed, last_call, locals,
                 tensorrt_mu_, refit_call, copy_call, trt_state,
                 dds_output_allocator_maps_, bind_call>>

RebuildLock(t) ==
  /\ pc[t] = "want_build"
  /\ api_lock = 0
  /\ api_lock' = t
  /\ pc' = [pc EXCEPT ![t] = "building"]
  /\ UNCHANGED <<cfg, fused_nodes, profile_min_shapes_, profile_max_shapes_,
                 profile_opt_shapes_, disk, node, engine, context,
                 input_shape_ranges_, weight_stripped_engine_refit_, history,
                 compiled, bad_destroy, crashed, last_call, locals,
                 tensorrt_mu_, refit_call, copy_call, trt_state,
                 dds_output_allocator_maps_, bind_call>>

\* lines 1571-1589: buildSerializedNetwork and deserializeCudaEngine, then
\* the lock of line 1570 goes out of scope
RebuildBuild(t) ==
  /\ pc[t] = "building"
  /\ \E fault \in {"none", "buildSerializedNetwork", "deserializeCudaEngine"} :
       StoreStep(t, BuildStage(NodeState @@ locals[t], fault), "tail")
  /\ api_lock' = 0
  /\ UNCHANGED <<cfg, fused_nodes, profile_min_shapes_, profile_max_shapes_,
                 profile_opt_shapes_, node, history, compiled, last_call,
                 tensorrt_mu_, refit_call, copy_call, trt_state,
                 dds_output_allocator_maps_, bind_call>>

\* lines 1590-1845: the rest of the call; returning releases tensorrt_mu_
ComputeFinish(t) ==
  /\ pc[t] = "tail"
  /\ \E fault \in {"none", "createExecutionContext", "enqueueV3"} :
     \E ub \in NullDerefFor(fault) :
       StoreStep(t, AfterBuild(cfg, NodeState @@ locals[t], fault, ub, NoCapture),
                 "idle")
  /\ tensorrt_mu_' = 0
  /\ UNCHANGED <<cfg, fused_nodes, profile_min_shapes_, profile_max_shapes_,
                 profile_opt_shapes_, node, history, compiled, last_call,
                 api_lock, refit_call, copy_call, trt_state,
                 dds_output_allocator_maps_, bind_call>>

\* line 1012: Compile of another subgraph takes GetApiLock for its build
CompileLock(t) ==
  /\ ~crashed /\ pc[t] = "idle"
  /\ api_lock = 0
  /\ api_lock' = t
  /\ pc' = [pc EXCEPT ![t] = "compile_building"]
  /\ UNCHANGED <<cfg, fused_nodes, profile_min_shapes_, profile_max_shapes_,
                 profile_opt_shapes_, disk, node, engine, context,
                 input_shape_ranges_, weight_stripped_engine_refit_, history,
                 compiled, bad_destroy, crashed, last_call, locals,
                 tensorrt_mu_, refit_call, copy_call, trt_state,
                 dds_output_allocator_maps_, bind_call>>

\* lines 1013-1168: the build of the other subgraph ends
CompileUnlock(t) ==
  /\ pc[t] = "compile_building"
  /\ api_lock' = 0
  /\ pc' = [pc EXCEPT ![t] = "idle"]
  /\ UNCHANGED <<cfg, fused_nodes, profile_min_shapes_, profile_max_shapes_,
                 profile_opt_shapes_, disk, node, engine, context,
                 input_shape_ranges_, weight_stripped_engine_refit_, history,
                 compiled, bad_destroy, crashed, last_call, locals,
                 tensorrt_mu_, refit_call, copy_call, trt_state,
                 dds_output_allocator_maps_, bind_call>>

\* lines 1959-1966: ComputeFunc of a precompiled engine is entered; the
\* lock_guard of line 1966 is commented out
CtxEnter(t) ==
  /\ node = "ctx" /\ ~crashed /\ pc[t] = "idle"
  /\ pc' = [pc EXCEPT ![t] = "ctx_body"]
  /\ locals' = [locals EXCEPT ![t] = NewLocals]
  /\ UNCHANGED <<cfg, fused_nodes, profile_min_shapes_, profile_max_shapes_,
                 profile_opt_shapes_, disk, node, engine, context,
                 input_shape_ranges_, weight_stripped_engine_refit_, history,
                 compiled, bad_destroy, crashed, last_call, tensorrt_mu_,
                 api_lock, refit_call, copy_call, trt_state,
                 dds_output_allocator_maps_, bind_call>>

\* lines 1967-2162: the body of ComputeFunc
CtxFinish(t) ==
  /\ pc[t] = "ctx_body"
  /\ \E fault \in {"none", "enqueueV3"} :
     \E ub \in NullDerefFor(fault) :
       StoreStep(t, ComputeFunc(cfg, NodeState @@ locals[t], fault, ub, NoCapture),
                 "idle")
  /\ UNCHANGED <<cfg, fused_nodes, profile_min_shapes_, profile_max_shapes_,
                 profile_opt_shapes_, node, history, compiled, last_call,
                 tensorrt_mu_, api_lock, refit_call, copy_call, trt_state,
                 dds_output_allocator_maps_, bind_call>>

NextConc ==
  \E t \in Threads :
    \/ ComputeEnter(t) \/ ComputePrepare(t) \/ ComputeBranch(t)
    \/ RebuildLock(t) \/ RebuildBuild(t) \/ ComputeFinish(t)
    \/ CompileLock(t) \/ CompileUnlock(t)
    \/ CtxEnter(t) \/ CtxFinish(t)

SpecConc == InitConc /\ [][NextConc]_vars

(***************************************************************************)
(* Specification SpecCopy: the host asks CanCopy and calls CopyTensor for  *)
(* one pair of devices.                                                    *)
(***************************************************************************)
\* an OrtDevice: its OrtMemoryInfoDeviceType and its OrtMemoryType
OrtDevices ==
  [device_type : {"CPU", "GPU", "FPGA"}, mem_type : {"Default", "CUDA_PINNED"}]

\* a CanCopy that looks at the source only
CanCopyMut_SourceOnly(source, target) ==
  source.device_type = "GPU" \/ source.mem_type = "CUDA_PINNED"

\* lines 529-542: the CanCopy lambda
CanCopy(source, target) ==
  \/ source.device_type = "GPU"
  \/ source.mem_type = "CUDA_PINNED"
  \/ target.device_type = "GPU"
  \/ target.mem_type = "CUDA_PINNED"

\* the CUDA and C library calls CopyTensor makes, in order
CudaCall(call, kind, on) == [call |-> call, kind |-> kind, stream |-> on]

\* lines 547-549: stream ? cudaMemcpyAsync(...) : cudaMemcpy(...)
DeviceToDevice(stream) ==
  IF stream # "nullptr" THEN <<CudaCall("cudaMemcpyAsync", "DeviceToDevice", stream)>>
  ELSE <<CudaCall("cudaMemcpy", "DeviceToDevice", "none")>>

\* lines 553-557 and 561-565: the copy between host and device
HostDevice(kind, stream) ==
  IF stream # "nullptr" THEN <<CudaCall("cudaMemcpyAsync", kind, stream)>>
  ELSE <<CudaCall("cudaMemcpy", kind, "none"),
         CudaCall("cudaStreamSynchronize", "", "nullptr")>>

\* lines 568-571: the host copy, after a synchronize when the source is pinned
HostCopy(source_mem_type, stream) ==
  (IF stream # "nullptr" /\ source_mem_type = "CUDA_PINNED"
   THEN <<CudaCall("cudaStreamSynchronize", "", stream)>> ELSE <<>>)
    \o <<CudaCall("memcpy", "", "none")>>

\* a CopyTensor that copies on the host whatever the devices
CopyTensorMut_AlwaysMemcpy(src, source_device_type, source_mem_type, dst, target_device_type, count, stream) ==
  HostCopy(source_mem_type, stream)

\* a CopyTensor whose host copy never synchronizes
CopyTensorMut_NoPinnedSync(src, source_device_type, source_mem_type, dst, target_device_type, count, stream) ==
  IF source_device_type = "GPU" /\ target_device_type = "GPU"
  THEN IF src # dst THEN DeviceToDevice(stream) ELSE <<>>
  ELSE IF source_device_type = "CPU" /\ target_device_type = "GPU"
  THEN HostDevice("HostToDevice", stream)
  ELSE IF source_device_type = "GPU" /\ target_device_type = "CPU"
  THEN HostDevice("DeviceToHost", stream)
  ELSE <<CudaCall("memcpy", "", "none")>>

\* lines 544-573: the CopyTensor lambda; the value is the calls it makes
CopyTensor(src, source_device_type, source_mem_type, dst, target_device_type, count, stream) ==
  IF source_device_type = "GPU" /\ target_device_type = "GPU"
  THEN IF src # dst THEN DeviceToDevice(stream) ELSE <<>>
  ELSE IF source_device_type = "CPU" /\ target_device_type = "GPU"
  THEN HostDevice("HostToDevice", stream)
  ELSE IF source_device_type = "GPU" /\ target_device_type = "CPU"
  THEN HostDevice("DeviceToHost", stream)
  ELSE HostCopy(source_mem_type, stream)

InitCopy ==
  /\ cfg = DefaultOptions
  /\ fused_nodes = <<[ctx |-> FALSE, net |-> <<StaticInput("x")>>]>>
  /\ profile_min_shapes_ = EmptyMap
  /\ profile_max_shapes_ = EmptyMap
  /\ profile_opt_shapes_ = EmptyMap
  /\ disk = NoDisk
  /\ node = "uncompiled"
  /\ engine = NullEngine
  /\ context = "null"
  /\ input_shape_ranges_ = EmptyMap
  /\ weight_stripped_engine_refit_ = FALSE
  /\ history = NoHistory
  /\ compiled = NotCompiled
  /\ bad_destroy = FALSE
  /\ crashed = FALSE
  /\ last_call = NoCall
  /\ pc = EmptyMap
  /\ locals = EmptyMap
  /\ tensorrt_mu_ = 0
  /\ api_lock = 0
  /\ refit_call = EmptyMap
  /\ copy_call \in [source : OrtDevices, target : OrtDevices,
                    src : {"a"}, dst : {"a", "b"}, count : {4},
                    stream : {"nullptr", "s1"},
                    asked : {FALSE}, can_copy : {FALSE},
                    copied : {FALSE}, calls : {<<>>}]
  /\ trt_state = NoShortFuncState
  /\ dds_output_allocator_maps_ = EmptyMap
  /\ bind_call = NoBinding

\* the host asks whether the provider copies between the two devices
CanCopyCall ==
  /\ ~copy_call.asked
  /\ copy_call' = [copy_call EXCEPT
                     !.asked = TRUE,
                     !.can_copy = CanCopy(copy_call.source, copy_call.target)]
  /\ UNCHANGED <<cfg, fused_nodes, profile_min_shapes_, profile_max_shapes_,
                 profile_opt_shapes_, disk, node, engine, context,
                 input_shape_ranges_, weight_stripped_engine_refit_, history,
                 compiled, bad_destroy, crashed, last_call, pc, locals,
                 tensorrt_mu_, api_lock, refit_call, trt_state,
                 dds_output_allocator_maps_, bind_call>>

\* the host has the provider copy a tensor
CopyTensorCall ==
  /\ ~copy_call.copied
  /\ copy_call' =
       [copy_call EXCEPT
          !.copied = TRUE,
          !.calls = CopyTensor(copy_call.src, copy_call.source.device_type,
                               copy_call.source.mem_type, copy_call.dst,
                               copy_call.target.device_type, copy_call.count,
                               copy_call.stream)]
  /\ UNCHANGED <<cfg, fused_nodes, profile_min_shapes_, profile_max_shapes_,
                 profile_opt_shapes_, disk, node, engine, context,
                 input_shape_ranges_, weight_stripped_engine_refit_, history,
                 compiled, bad_destroy, crashed, last_call, pc, locals,
                 tensorrt_mu_, api_lock, refit_call, trt_state,
                 dds_output_allocator_maps_, bind_call>>

NextCopy == CanCopyCall \/ CopyTensorCall

SpecCopy == InitCopy /\ [][NextCopy]_vars

\* ---------------------------------------------------------------------
\* Input and output binding of the precompiled-engine ComputeFunc
\* (lines 1959-2162) with the binding helpers it calls (lines 174-489)
\* ---------------------------------------------------------------------

\* ONNX element types a tensor of the node can have
TensorTypes ==
  {"FLOAT", "FLOAT16", "BOOL", "INT8", "UINT8", "INT32", "INT64", "DOUBLE", "STRING"}

\* values of NV_TENSORRT_MAJOR the provider is built against
Majors == {8, 10}

\* element counts of a host tensor: an empty tensor and a tensor of two elements
Counts == {0, 2}

\* what GetInput / GetOutput hands back in one call: the element count and
\* whether the data pointer is null
TensorData == {t \in [elem_cnt : Counts, null : BOOLEAN] : t.null => t.elem_cnt = 0}

\* an output in one call: whether the context reports a -1 dimension, and the
\* host tensor of the declared shape (pre-bound) or of the shape the engine
\* reports to the allocator (data-dependent)
OutputData ==
  {t \in [is_DDS : BOOLEAN, elem_cnt : Counts, null : BOOLEAN] : t.null => t.elem_cnt = 0}

\* the call of the engine, the context, the allocator or CUDA that fails
BindFaults ==
  {"none", "setInputShape", "setTensorAddress", "enqueueV3",
   "cudaStreamSynchronize", "cudaMemcpyAsync"}

\* one call made on the execution context, the allocator or the stream
BindEvent(op, name, arg, n) == [op |-> op, name |-> name, arg |-> arg, n |-> n]

\* an address handed to the execution context
Address(kind, id) == [kind |-> kind, id |-> id]

Emit(b, e) == [b EXCEPT !.trace = Append(@, e)]

\* return CreateStatus(code, text); mentions is what the text names
BindFail(b, code, text, mentions) ==
  [b EXCEPT !.status = code, !.message = [text |-> text, mentions |-> mentions]]

\* line 10: CUDA_RETURN_IF_ERROR calls abort() when the CUDA call failed; the
\* process ends inside the call
Abort(b, call) ==
  [b EXCEPT !.status = "abort", !.message = [text |-> call, mentions |-> ""]]

\* lines 29-46 with the push_back of the macros: one more scratch buffer
MakeUniquePtrFromOrtAllocator(b, bytes) ==
  Emit([b EXCEPT !.scratch_buffers = Append(@, [bytes |-> bytes, frees |-> 0])],
       BindEvent("Alloc", "", "scratch_buffers", Len(b.scratch_buffers) + 1))

\* scratch_buffers.back().get()
LastScratch(b) == Address("scratch", Len(b.scratch_buffers))

\* trt_context->setTensorAddress(name, address)
SetTensorAddress(b, name, a) ==
  Emit([b EXCEPT !.address = Put(@, name, a)],
       BindEvent("setTensorAddress", name, a.kind, a.id))

\* an input switch that has no default case
InputCaseMut_NoDefault(tensor_type, major) == "CASE_GET_INPUT_TENSOR"

\* lines 339-358: the case of the execution-tensor switch an element type takes;
\* the two CASE_GET_CAST_INPUT_TENSOR lines (350, 353) are comments
InputCase(tensor_type, major) ==
  IF tensor_type \in {"FLOAT", "FLOAT16", "BOOL", "INT8", "UINT8", "INT32"}
  THEN "CASE_GET_INPUT_TENSOR"
  ELSE IF tensor_type = "INT64" /\ major >= 10 THEN "CASE_GET_INPUT_TENSOR"
  ELSE "default"

\* a binding that keeps one placeholder byte for all the empty inputs
GetInputMut_SharedByte(b, t, h) ==
  IF ~t.null /\ t.elem_cnt > 0 THEN [b |-> b, data |-> Address("tensor", h)]
  ELSE IF Len(b.scratch_buffers) > 0 THEN [b |-> b, data |-> Address("scratch", 1)]
  ELSE LET b1 == MakeUniquePtrFromOrtAllocator(b, 1)
       IN [b |-> b1, data |-> LastScratch(b1)]

\* lines 174-184: CASE_GET_INPUT_TENSOR on the tensor t of kernel input h
GetInputTensor(b, t, h) ==
  IF ~t.null /\ t.elem_cnt > 0 THEN [b |-> b, data |-> Address("tensor", h)]
  ELSE LET b1 == MakeUniquePtrFromOrtAllocator(b, 1)
       IN [b |-> b1, data |-> LastScratch(b1)]

\* a copy of the shape values that does not wait for the stream
ShapeCopyMut_NoSync(b, input, fault) ==
  LET b1 == Emit(b, BindEvent("cudaMemcpyAsync", input.name, "DeviceToHost", 0)) IN
  IF fault = "cudaMemcpyAsync" THEN Abort(b1, "cudaMemcpyAsync")
  ELSE [b1 EXCEPT !.shape_tensor_values = @ \cup {input.name}]

\* lines 57-68 with 277-284 / 296-303: the values of a shape tensor are copied
\* to the host and stored in the map of the call under the input name
GetShapeOfShapeTensor(b, input, fault) ==
  LET b1 == Emit(b, BindEvent("cudaMemcpyAsync", input.name, "DeviceToHost", 0)) IN
  IF fault = "cudaMemcpyAsync" THEN Abort(b1, "cudaMemcpyAsync")
  ELSE LET b2 == Emit(b1, BindEvent("cudaStreamSynchronize", input.name,
                                    "GetShapeOfShapeTensor", 0)) IN
       IF fault = "cudaStreamSynchronize" THEN Abort(b2, "cudaStreamSynchronize")
       ELSE [b2 EXCEPT !.shape_tensor_values = @ \cup {input.name}]

\* lines 271-316: a shape tensor input
BindShapeInput(b, input, fault) ==
  IF input.type \in {"INT32", "INT64"}
  THEN LET b1 == IF input.name \in b.shape_tensor_values THEN b
                 ELSE GetShapeOfShapeTensor(b, input, fault)
       IN IF b1.status # "run" THEN b1
          ELSE IF fault = "setTensorAddress"
          THEN BindFail(b1, "ORT_EP_FAIL", "failed to call setTensorAddress() for shape input", "input")
          ELSE SetTensorAddress(b1, input.name, Address("shape_tensor_values", 0))
  ELSE BindFail(b, "ORT_EP_FAIL", "The data type of shape tensor should be INT32 or INT64", "input")

\* lines 317-359: an execution tensor input
BindExecutionInput(b, input, t, h, major, fault) ==
  IF fault = "setInputShape"
  THEN BindFail(b, "ORT_EP_FAIL", "failed to call setInputShape() for input", "input")
  ELSE LET b1 == Emit(b, BindEvent("setInputShape", input.name, "", t.elem_cnt))
           case == InputCase(input.type, major)
       IN IF case = "CASE_GET_INPUT_TENSOR"
          THEN LET r == GetInputTensor(b1, t, h)
               IN SetTensorAddress(r.b, input.name, r.data)
          ELSE BindFail(b1, "ORT_EP_FAIL", "input onnx tensor data type not supported", "type")

\* lines 2061-2066: *max_context_mem_size_ptr after the engine's size is
\* folded into it
MaxContextMemSize(st) ==
  IF st.mem_size > st.max_ctx_mem_size_ THEN st.mem_size ELSE st.max_ctx_mem_size_

\* lines 2010-2014, 2035-2039: size_t index = 0, replaced by the entry of the
\* map when the name has one
LookupIndex(indexes, name) ==
  IF name \in DOMAIN indexes THEN indexes[name] ELSE 0

\* lines 245-375: BindContextInput for the i-th engine input, on the tensor
\* ctx.GetInput(input_index) of the kernel context
BindContextInput(st, b, i, fault) ==
  LET name == st.inputs[i].name
      h == LookupIndex(st.input_indexes, name)
      input == [st.inputs[i] EXCEPT !.type = st.kernel_inputs[h + 1].type]
      b1 == Emit([b EXCEPT !.input_index = Put(@, name, h)],
                 BindEvent("GetInput", name, "", h))
  IN IF input.shape_tensor
     THEN BindShapeInput(b1, input, fault)
     ELSE BindExecutionInput(b1, input, b.in.inputs[h + 1], h, st.major, fault)

\* lines 2007-2020: the input loop, left at the first failure
RECURSIVE BindInputs(_, _, _, _)
BindInputs(st, b, i, fault) ==
  IF i > Len(st.inputs) \/ b.status # "run" THEN b
  ELSE BindInputs(st, BindContextInput(st, b, i, fault), i + 1, fault)

\* lines 2041-2045, 2106-2110: size_t output_type = 0 (UNDEFINED), replaced by
\* the entry of the type map when the name has one
OutputType(st, name) ==
  IF name \in DOMAIN st.output_types THEN st.output_types[name] ELSE "UNDEFINED"

\* lines 410-425: the case of the pre-bound output switch an element type takes
OutputCase(output_type, major) ==
  IF output_type \in {"FLOAT", "FLOAT16", "BOOL", "INT8", "UINT8", "INT32"}
  THEN "CASE_GET_OUTPUT_TENSOR"
  ELSE IF output_type = "INT64"
  THEN IF major >= 10 THEN "CASE_GET_OUTPUT_TENSOR" ELSE "CASE_GET_CAST_OUTPUT_TENSOR"
  ELSE IF output_type = "DOUBLE" THEN "CASE_GET_CAST_OUTPUT_TENSOR"
  ELSE "default"

\* lines 200-210: CASE_GET_OUTPUT_TENSOR on the tensor t of kernel output h
GetOutputTensor(b, t, h) ==
  IF ~t.null /\ t.elem_cnt > 0 THEN [b |-> b, buffer |-> Address("tensor", h)]
  ELSE LET b1 == MakeUniquePtrFromOrtAllocator(b, 1)
       IN [b |-> b1, buffer |-> LastScratch(b1)]

\* lines 212-225: CASE_GET_CAST_OUTPUT_TENSOR
GetCastOutputTensor(b, i, t) ==
  IF ~t.null /\ t.elem_cnt > 0
  THEN LET b1 == MakeUniquePtrFromOrtAllocator(b, t.elem_cnt * 4)
       IN [b |-> [b1 EXCEPT !.output_dim_sizes = Put(@, i, t.elem_cnt)],
           buffer |-> LastScratch(b1)]
  ELSE LET b1 == MakeUniquePtrFromOrtAllocator(b, 1)
       IN [b |-> [b1 EXCEPT !.output_dim_sizes = Put(@, i, 1)],
           buffer |-> LastScratch(b1)]

\* an allocator map that takes a fresh allocator for every data-dependent output
InstallMut_Always(b, name, is_DDS) ==
  IF is_DDS
  THEN Emit([b EXCEPT !.dds = Put(@, name,
                [installs |-> IF name \in DOMAIN b.dds
                              THEN Min2(b.dds[name].installs + 1, 2) ELSE 1,
                 shape |-> 0])],
            BindEvent("setOutputAllocator", name, "", 0))
  ELSE b

\* lines 400-405: a new OutputAllocator unless the output has one
InstallAllocator(b, name, is_DDS) ==
  IF name \notin DOMAIN b.dds
  THEN Emit([b EXCEPT !.dds = Put(@, name, [installs |-> 1, shape |-> 0])],
            BindEvent("setOutputAllocator", name, "", 0))
  ELSE b

\* lines 406-426: the host output of the declared shape and its buffer
BindKnownOutput(b, output, i, t, h, major) ==
  LET b1 == Emit([b EXCEPT !.output_tensors = Put(@, i, t)],
                 BindEvent("GetOutput", output.name, "declared", t.elem_cnt))
      case == OutputCase(output.type, major)
  IN IF case = "CASE_GET_OUTPUT_TENSOR"
     THEN LET r == GetOutputTensor(b1, t, h)
          IN SetTensorAddress(r.b, output.name, r.buffer)
     ELSE IF case = "CASE_GET_CAST_OUTPUT_TENSOR"
     THEN LET r == GetCastOutputTensor(b1, i, t)
          IN SetTensorAddress(r.b, output.name, r.buffer)
     ELSE BindFail(b1, "ORT_EP_FAIL", "output tensor data type not supported", "type")

\* lines 377-429: BindContextOutput for the i-th engine output
BindContextOutput(st, b, i) ==
  LET name == st.outputs[i].name
      h == LookupIndex(st.output_indexes, name)
      output == [st.outputs[i] EXCEPT !.type = OutputType(st, name)]
      is_DDS == b.in.outputs[i].is_DDS
      known_DDS == name \in DOMAIN b.dds
      b1 == [b EXCEPT !.output_index = Put(@, name, h)]
  IN IF is_DDS \/ known_DDS
     THEN InstallAllocator(b1, name, is_DDS)
     ELSE BindKnownOutput(b1, output, i,
                          [b.in.outputs[i] EXCEPT !.null = b.in.outputs[h + 1].null],
                          h, st.major)

\* lines 2032-2053: the output loop, left at the first failure
RECURSIVE BindOutputs(_, _, _)
BindOutputs(st, b, i) ==
  IF i > Len(st.outputs) \/ b.status # "run" THEN b
  ELSE BindOutputs(st, BindContextOutput(st, b, i), i + 1)

\* lines 2055-2069: the context memory; the unique pointer is a temporary of
\* the setDeviceMemory statement
SetContextMemory(st, b) ==
  IF b.status = "run" /\ st.context_memory_sharing_enable
  THEN LET size == MaxContextMemSize(st) IN
       Emit(Emit(Emit(b, BindEvent("Alloc", "", "context_memory", size)),
                 BindEvent("setDeviceMemory", "", "context_memory", size)),
            BindEvent("Free", "", "context_memory", size))
  ELSE b

\* IOutputAllocator::notifyShape during enqueueV3: every output that has an
\* allocator gets the shape the engine computed
RECURSIVE NotifyShapes(_, _, _)
NotifyShapes(st, b, i) ==
  IF i > Len(st.outputs) THEN b
  ELSE LET name == st.outputs[i].name
       IN NotifyShapes(st,
            IF name \in DOMAIN b.dds
            THEN [b EXCEPT !.dds[name].shape = b.in.outputs[i].elem_cnt]
            ELSE b, i + 1)

\* the outputs the engine wrote straight into the host tensor
DirectOutputs(st, b) ==
  {i \in 1 .. Len(st.outputs) :
     /\ st.outputs[i].name \in DOMAIN b.address
     /\ b.address[st.outputs[i].name].kind = "tensor"}

\* the warm-up test and the capture test of the provider, as the
\* specification's section on graph capture gives them: the regular runs
\* have reached the threshold; a graph has been captured
IsGraphCaptureAllowed(st) ==
  st.regular_run_count_before_graph_capture_ >= st.min_num_runs_before_cuda_graph_capture_

IsGraphCaptured(st) == st.graph_captured

\* lines 2074-2078: the condition is evaluated and its body, SetStream and
\* CaptureBegin, is a comment
BindCaptureBegin(st, b) ==
  IF /\ b.status = "run" /\ st.cuda_graph_enable_
     /\ IsGraphCaptureAllowed(st) /\ ~IsGraphCaptured(st)
  THEN b
  ELSE b

\* lines 2148-2157: the condition is evaluated and its body, CaptureEnd and
\* ReplayGraph or IncrementRegularRunCountBeforeGraphCapture, is a comment
BindCaptureEnd(st, b) ==
  IF b.status = "run" /\ st.cuda_graph_enable_ /\ ~IsGraphCaptured(st)
  THEN b
  ELSE b

\* lines 2080-2083: enqueueV3
BindEnqueue(st, b, fault) ==
  IF b.status # "run" THEN b
  ELSE IF fault = "enqueueV3"
  THEN BindFail(Emit(b, BindEvent("enqueueV3", "", "false", 0)),
                "ORT_FAIL", "execution context enqueue failed", "")
  ELSE LET b1 == NotifyShapes(st, Emit(b, BindEvent("enqueueV3", "", "true", 0)), 1)
       IN [b1 EXCEPT !.holds_result = DirectOutputs(st, b1)]

\* lines 2099-2101: cudaStreamSynchronize under the policy alone
BindSync(st, b, fault) ==
  IF b.status = "run" /\ st.sync_stream_after_enqueue_
  THEN LET b1 == Emit(b, BindEvent("cudaStreamSynchronize", "", "", 0))
       IN IF fault = "cudaStreamSynchronize"
          THEN Abort(b1, "cudaStreamSynchronize")
          ELSE b1
  ELSE b

\* lines 470-486: the case of the copy switch an element type takes; the two
\* CASE_CAST_TENSOR lines (480, 483) are comments
CopyCase(output_type, major) ==
  IF output_type \in {"FLOAT", "FLOAT16", "BOOL", "INT8", "UINT8", "INT32"}
  THEN "CASE_COPY_TENSOR"
  ELSE IF output_type = "INT64" /\ major >= 10 THEN "CASE_COPY_TENSOR"
  ELSE "default"

\* lines 435-489: BindKernelOutput, with CASE_COPY_TENSOR (227-234)
BindKernelOutput(st, b, i, fault) ==
  LET h == LookupIndex(st.output_indexes, st.outputs[i].name)
      output == [st.outputs[i] EXCEPT !.type = OutputType(st, st.outputs[i].name)]
      shape == b.dds[output.name].shape
      null == b.in.outputs[h + 1].null
      b1 == Emit([b EXCEPT !.output_index = Put(@, output.name, h)],
                 BindEvent("GetOutput", output.name, "recorded", shape))
  IN IF CopyCase(output.type, st.major) = "CASE_COPY_TENSOR"
     THEN IF ~null /\ shape > 0
          THEN LET b2 == Emit(b1, BindEvent("cudaMemcpyAsync", output.name,
                                            "DeviceToDevice", shape))
               IN IF fault = "cudaMemcpyAsync"
                  THEN Abort(b2, "cudaMemcpyAsync")
                  ELSE [b2 EXCEPT !.holds_result = @ \cup {i}]
          ELSE [b1 EXCEPT !.holds_result = @ \cup {i}]
     ELSE BindFail(b1, "ORT_FAIL", "output tensor data type not supported", "type")

\* lines 2124-2140: the cast of a pre-bound output; the int64 cast is compiled
\* for NV_TENSORRT_MAJOR < 10, the body of the double case is a comment
CastKnownOutput(st, b, i) ==
  IF /\ st.major < 10 /\ OutputType(st, st.outputs[i].name) = "INT64"
     /\ ~b.output_tensors[i].null
  THEN LET n == b.output_dim_sizes[i]
           b1 == Emit(b, BindEvent("Impl_Cast", st.outputs[i].name, "widen", n))
       IN IF n = b.output_tensors[i].elem_cnt
          THEN [b1 EXCEPT !.holds_result = @ \cup {i}]
          ELSE b1
  ELSE b

\* lines 2103-2142: the output loop after enqueueV3
RECURSIVE FinalizeOutputs(_, _, _, _)
FinalizeOutputs(st, b, i, fault) ==
  IF i > Len(st.outputs) \/ b.status # "run" THEN b
  ELSE FinalizeOutputs(st,
         IF st.outputs[i].name \in DOMAIN b.dds
         THEN BindKernelOutput(st, b, i, fault)
         ELSE CastKnownOutput(st, b, i),
         i + 1, fault)

\* a return that keeps the scratch buffers of a failed call
ReleaseMut_OnSuccessOnly(b) ==
  IF b.status = "run"
  THEN [b EXCEPT !.scratch_buffers = [k \in DOMAIN @ |-> [@[k] EXCEPT !.frees = @ + 1]],
                 !.trace = @ \o [k \in DOMAIN b.scratch_buffers |->
                                   BindEvent("Free", "", "scratch_buffers", k)],
                 !.status = "ok"]
  ELSE b

\* every return after line 2006 destroys scratch_buffers: each deleter of
\* lines 42-45 runs once
ReleaseScratch(b) ==
  IF b.status = "abort" THEN b ELSE
  [b EXCEPT !.scratch_buffers = [k \in DOMAIN @ |-> [@[k] EXCEPT !.frees = @ + 1]],
            !.trace = @ \o [k \in DOMAIN b.scratch_buffers |->
                              BindEvent("Free", "", "scratch_buffers", k)],
            !.status = IF @ = "run" THEN "ok" ELSE @]

\* lines 1959-2162: ComputeFunc of a precompiled engine
BindingComputeFunc(st, dds, in, fault) ==
  ReleaseScratch(
    BindCaptureEnd(st,
      FinalizeOutputs(st,
        BindSync(st,
          BindEnqueue(st,
            BindCaptureBegin(st,
              SetContextMemory(st,
                BindOutputs(st, BindInputs(st, NewBinding(in, dds), 1, fault), 1))),
            fault),
          fault),
        1, fault)))

\* the fused nodes of precompiled engines the binding is checked on
BindInput(name, type, shape_tensor) ==
  [name |-> name, type |-> type, shape_tensor |-> shape_tensor]

BindOutput(name, type) == [name |-> name, type |-> type]

\* the builds drawn for an element type: only int64 is compiled differently
MajorsOf(t) == IF t = "INT64" THEN Majors ELSE {10}

\* one input and one output; every element type on one side at a time
OneToOneNodes ==
  UNION {{ShortFuncState(m, TRUE, FALSE, <<BindInput("x", t, s)>>,
                         <<BindOutput("y", "FLOAT")>>) : m \in MajorsOf(t), s \in BOOLEAN}
           \cup
         {ShortFuncState(m, TRUE, FALSE, <<BindInput("x", "FLOAT", FALSE)>>,
                         <<BindOutput("y", t)>>) : m \in MajorsOf(t)} : t \in TensorTypes}

\* the run policies, on a float node
PolicyNodes ==
  {ShortFuncState(10, s, c, <<BindInput("x", "FLOAT", FALSE)>>, <<BindOutput("y", "FLOAT")>>) :
     s \in BOOLEAN, c \in BOOLEAN}

\* graph capture enabled on a float node, with the warm-up threshold
WarmupRuns == {1, 2}

CaptureNodes ==
  {[ShortFuncState(10, s, FALSE, <<BindInput("x", "FLOAT", FALSE)>>,
                   <<BindOutput("y", "FLOAT")>>)
      EXCEPT !.cuda_graph_enable_ = TRUE,
             !.min_num_runs_before_cuda_graph_capture_ = r] :
     s \in BOOLEAN, r \in WarmupRuns}

\* device memory sizes of the engine, and max_ctx_mem_size_ as the nodes
\* compiled before left it
MemSizes == {2, 4}
PriorSizes == {0, 3}

\* the nodes as CreateNodeComputeInfoFromPrecompiledEngine leaves them
CompiledNodes(nodes) ==
  {CreateContext(st, IF st.context_memory_sharing_enable THEN m ELSE 2,
                 IF st.context_memory_sharing_enable THEN p ELSE 0) :
     st \in nodes, m \in MemSizes, p \in PriorSizes}

\* two outputs, or two inputs
WideNodes ==
  {ShortFuncState(10, TRUE, FALSE, <<BindInput("x", "FLOAT", FALSE)>>,
                  <<BindOutput("y", "FLOAT"), BindOutput("w", "DOUBLE")>>),
   ShortFuncState(8, TRUE, FALSE, <<BindInput("x", "FLOAT", FALSE)>>,
                  <<BindOutput("y", "INT64"), BindOutput("w", "DOUBLE")>>)}
  \cup
  {ShortFuncState(m, TRUE, FALSE,
                  <<BindInput("x", "FLOAT", FALSE), BindInput("z", "INT64", FALSE)>>,
                  <<BindOutput("y", "FLOAT")>>) : m \in Majors}
  \cup
  {ShortFuncState(10, TRUE, FALSE,
                  <<BindInput("s", "INT32", TRUE), BindInput("x", "FLOAT", FALSE)>>,
                  <<BindOutput("y", "FLOAT")>>)}

\* an engine whose second input, or second output, has a name that the
\* fused node does not have: lines 1905-1918 leave it out of the index map
UnmappedNodes ==
  {[ShortFuncState(10, TRUE, FALSE,
                   <<BindInput("x", "FLOAT", FALSE), BindInput("z", "FLOAT", FALSE)>>,
                   <<BindOutput("y", "FLOAT")>>)
      EXCEPT !.kernel_inputs = <<BindInput("x", "FLOAT", FALSE),
                                 BindInput("q", "FLOAT", FALSE)>>,
             !.input_indexes = ("x" :> 0)],
   [ShortFuncState(10, TRUE, FALSE, <<BindInput("x", "FLOAT", FALSE)>>,
                   <<BindOutput("y", "FLOAT"), BindOutput("v", "FLOAT")>>)
      EXCEPT !.kernel_outputs = <<BindOutput("y", "FLOAT"), BindOutput("w", "FLOAT")>>,
             !.output_indexes = ("y" :> 0),
             !.output_types = ("y" :> "FLOAT") @@ ("w" :> "FLOAT")]}

\* the faults drawn for a node: every one on a node of float tensors that has
\* one output and an index entry for every input
FaultsOf(st) ==
  IF /\ \A i \in 1 .. Len(st.inputs) : st.inputs[i].type \in {"FLOAT", "INT32"}
     /\ \A j \in 1 .. Len(st.outputs) : st.outputs[j].type = "FLOAT"
     /\ Len(st.outputs) = 1
     /\ \A i \in 1 .. Len(st.inputs) : st.inputs[i].name \in DOMAIN st.input_indexes
  THEN BindFaults ELSE {"none", "enqueueV3"}

\* the input tensors drawn for a node: non-empty ones when it has two outputs
InputsOf(st) ==
  [1 .. Len(st.inputs) ->
     IF Len(st.outputs) > 1 THEN {t \in TensorData : t.elem_cnt > 0} ELSE TensorData]

InitBind ==
  /\ cfg = DefaultOptions
  /\ fused_nodes = <<[ctx |-> TRUE, net |-> <<StaticInput("x")>>]>>
  /\ profile_min_shapes_ = EmptyMap
  /\ profile_max_shapes_ = EmptyMap
  /\ profile_opt_shapes_ = EmptyMap
  /\ disk = NoDisk
  /\ node = "uncompiled"
  /\ engine = NullEngine
  /\ context = "null"
  /\ input_shape_ranges_ = EmptyMap
  /\ weight_stripped_engine_refit_ = FALSE
  /\ history = NoHistory
  /\ compiled = NotCompiled
  /\ bad_destroy = FALSE
  /\ crashed = FALSE
  /\ last_call = NoCall
  /\ pc = EmptyMap
  /\ locals = EmptyMap
  /\ tensorrt_mu_ = 0
  /\ api_lock = 0
  /\ refit_call = EmptyMap
  /\ copy_call = EmptyMap
  /\ trt_state \in CompiledNodes(OneToOneNodes \cup PolicyNodes \cup WideNodes
                                \cup UnmappedNodes \cup CaptureNodes)
  /\ dds_output_allocator_maps_ = EmptyMap
  /\ bind_call = NoBinding

\* the host runs the fused node once: ComputeFunc, lines 1959-2162
ComputeBind ==
  /\ bind_call.status # "abort"
  /\ \E ins \in InputsOf(trt_state),
         outs \in [1 .. Len(trt_state.outputs) -> OutputData],
         fault \in FaultsOf(trt_state) :
       \E b \in {BindingComputeFunc(trt_state, dds_output_allocator_maps_,
                                     [inputs |-> ins, outputs |-> outs, fault |-> fault],
                                     fault)} :
          /\ bind_call' = b
          /\ dds_output_allocator_maps_' = b.dds
          /\ trt_state' =
               IF \E k \in 1 .. Len(b.trace) : b.trace[k].op = "setDeviceMemory"
               THEN [trt_state EXCEPT !.max_ctx_mem_size_ = MaxContextMemSize(trt_state)]
               ELSE trt_state
  /\ UNCHANGED <<cfg, fused_nodes, profile_min_shapes_, profile_max_shapes_,
                 profile_opt_shapes_, disk, node, engine, context,
                 input_shape_ranges_, weight_stripped_engine_refit_, history,
                 compiled, bad_destroy, crashed, last_call, pc, locals,
                 tensorrt_mu_, api_lock, refit_call, copy_call>>

NextBind == ComputeBind

SpecBind == InitBind /\ [][NextBind]_vars

(***************************************************************************)
(* Specification SpecProfile: ApplyProfileShapesFromProviderOptions        *)
(* (lines 70-172) applied to the inputs of one network, with the option    *)
(* values at their width.  An int64_t of the option maps is [hi, lo]: hi   *)
(* holds its upper 32 bits and lo its lower 32 bits, both read as signed   *)
(* 32-bit integers.  The dimensions of a profile are int32_t values.       *)
(***************************************************************************)
Int64(hi, lo) == [hi |-> hi, lo |-> lo]

\* static_cast<int32_t>(int64_t): the lower 32 bits
StaticCastInt32(v) == v.lo

\* the int64_t that holds an int32_t
SignExtend(n) == Int64(IF n < 0 THEN -1 ELSE 0, n)

\* (min, max, opt) of one profile, over the values 1, 3, 4, 2^31 and
\* 2^32 + 1
OptionTriples ==
  {<<Int64(0, 1), Int64(0, 4), Int64(0, 3)>>,
   <<Int64(0, 3), Int64(0, 3), Int64(0, 3)>>,
   <<Int64(0, 1), Int64(1, 1), Int64(0, 4)>>,
   <<Int64(0, 1), Int64(0, INT_MIN), Int64(0, 3)>>}

\* the numbers of profiles the options carry
ProfileCounts == {0, 1, 2}

ProfileNetworks ==
  {<<[name |-> "x", is_shape |-> FALSE, dims |-> d]>> :
     d \in {<<-1, 2>>, <<-1, -1>>, <<2, 2>>}}
    \cup {<<ShapeInput("x")>>,
          <<DynInput("x"), DynInput("y")>>,
          <<DynInput("x"), ShapeInput("y")>>}

\* profile_{min,max,opt}_shapes of the names ns: profile i carries
\* triples[i][sel] in every dimension
OptionMap(ns, triples, sel) ==
  [n \in ns |-> [i \in 1 .. Len(triples) |-> <<triples[i][sel], triples[i][sel]>>]]

\* lines 104-129 and 132-161: what profile i receives for the input
ProfileEntry64(input, pmin, pmax, popt, i) ==
  IF input.is_shape
  THEN LET n == ShapeSize(input, pmin, i) IN
       [min |-> [j \in 1 .. n |-> StaticCastInt32(pmin[input.name][i][j])],
        max |-> [j \in 1 .. n |-> StaticCastInt32(pmax[input.name][i][j])],
        opt |-> [j \in 1 .. n |-> StaticCastInt32(popt[input.name][i][j])]]
  ELSE [min |-> [j \in 1 .. NbDims(input) |->
                   IF input.dims[j] = -1
                   THEN StaticCastInt32(pmin[input.name][i][j])
                   ELSE input.dims[j]],
        max |-> [j \in 1 .. NbDims(input) |->
                   IF input.dims[j] = -1
                   THEN StaticCastInt32(pmax[input.name][i][j])
                   ELSE input.dims[j]],
        opt |-> [j \in 1 .. NbDims(input) |->
                   IF input.dims[j] = -1
                   THEN StaticCastInt32(popt[input.name][i][j])
                   ELSE input.dims[j]]]

\* lines 70-172 over option values of 64 bits
ApplyProfileShapes64(trt_profiles, input, pmin, pmax, popt, ranges) ==
  IF Len(trt_profiles) = 0 \/ input.name \notin DOMAIN pmin
  THEN [ok |-> FALSE, profiles |-> trt_profiles, ranges |-> ranges]
  ELSE [ok |-> TRUE,
        profiles |-> [i \in 1 .. Len(trt_profiles) |->
                        Put(trt_profiles[i], input.name,
                            ProfileEntry64(input, pmin, pmax, popt, i))],
        ranges |-> Put(ranges, input.name,
                       [j \in RecordedDims(input, pmin) |->
                          [i \in 1 .. Len(trt_profiles) |->
                             OldTriple(ranges, input.name, j, i) \o
                               <<pmin[input.name][i][j + 1],
                                 pmax[input.name][i][j + 1],
                                 popt[input.name][i][j + 1]>>]])]

\* the locals of lines 720-761 before the loop over the inputs
ProfileLocals(n) ==
  [k |-> 0, trt_profiles |-> [i \in 1 .. n |-> EmptyMap],
   input_explicit_shape_ranges |-> EmptyMap, applied |-> <<>>]

InitProfile ==
  /\ cfg = DefaultOptions
  /\ \E net \in ProfileNetworks :
       fused_nodes = <<[ctx |-> FALSE, net |-> net]>>
  /\ \E n \in ProfileCounts, ns \in {{"x"}, {"y"}, {"x", "y"}} :
       \E triples \in [1 .. n -> OptionTriples] :
         /\ profile_min_shapes_ = OptionMap(ns, triples, 1)
         /\ profile_max_shapes_ = OptionMap(ns, triples, 2)
         /\ profile_opt_shapes_ = OptionMap(ns, triples, 3)
         /\ locals = ProfileLocals(n)
  /\ disk = NoDisk
  /\ node = "uncompiled"
  /\ engine = NullEngine
  /\ context = "null"
  /\ input_shape_ranges_ = EmptyMap
  /\ weight_stripped_engine_refit_ = FALSE
  /\ history = NoHistory
  /\ compiled = NotCompiled
  /\ bad_destroy = FALSE
  /\ crashed = FALSE
  /\ last_call = NoCall
  /\ pc = EmptyMap
  /\ tensorrt_mu_ = 0
  /\ api_lock = 0
  /\ refit_call = EmptyMap
  /\ copy_call = EmptyMap
  /\ trt_state = NoShortFuncState
  /\ dds_output_allocator_maps_ = EmptyMap
  /\ bind_call = NoBinding

\* one iteration of the loop over the network inputs (lines 764-775)
ApplyProfile ==
  /\ locals.k < Len(fused_nodes[1].net)
  /\ LET input == fused_nodes[1].net[locals.k + 1]
         ap == ApplyProfileShapes64(locals.trt_profiles, input,
                                    profile_min_shapes_, profile_max_shapes_,
                                    profile_opt_shapes_,
                                    locals.input_explicit_shape_ranges)
     IN locals' = [k |-> locals.k + 1, trt_profiles |-> ap.profiles,
                   input_explicit_shape_ranges |-> ap.ranges,
                   applied |-> Append(locals.applied, ap.ok)]
  /\ UNCHANGED <<cfg, fused_nodes, profile_min_shapes_, profile_max_shapes_,
                 profile_opt_shapes_, disk, node, engine, context,
                 input_shape_ranges_, weight_stripped_engine_refit_, history,
                 compiled, bad_destroy, crashed, last_call, pc, tensorrt_mu_,
                 api_lock, refit_call, copy_call, trt_state,
                 dds_output_allocator_maps_, bind_call>>

NextProfile == ApplyProfile

SpecProfile == InitProfile /\ [][NextProfile]_vars

(***************************************************************************)
(* Specification SpecBuilder: the builder settings of                      *)
(* CreateNodeComputeInfoFromGraph (lines 668-696 and 837-893) for the      *)
(* fused nodes of one provider.  fp16_enable_, int8_enable_, dla_enable_   *)
(* and dla_core_ are members of the provider: what one call writes is what *)
(* the next call reads.                                                    *)
(***************************************************************************)
\* a layer of the parsed network: an element-wise POW, an element-wise SUM
\* or a REDUCE; fp32 tells that its precision and output type are pinned
LayerKinds == {"POW", "SUM", "REDUCE"}

Layer(kind) == [kind |-> kind, fp32 |-> FALSE]

LayerLists == UNION {[1 .. n -> {Layer(k) : k \in LayerKinds}] : n \in 0 .. 3}

\* layer->getType() == kELEMENTWISE with getOperation() == kPOW (line 687)
IsPow(layer) == layer.kind = "POW"

\* next_layer->getType() == kREDUCE (line 687)
IsReduce(layer) == layer.kind = "REDUCE"

\* lines 684-695: for (idx = 1; idx < getNbLayers() - 1; ++idx) pins layer
\* idx and layer idx + 1; the layer of index idx is layers[idx + 1] here
LayerNormFallback(layers) ==
  LET pairs == {idx \in 1 .. Len(layers) - 2 :
                  IsPow(layers[idx + 1]) /\ IsReduce(layers[idx + 2])}
  IN [i \in 1 .. Len(layers) |->
        IF (i - 1) \in pairs \/ (i - 2) \in pairs
        THEN [layers[i] EXCEPT !.fp32 = TRUE]
        ELSE layers[i]]

\* lines 671-673: kSTRONGLY_TYPED is in network_flags when the build is for
\* NV_TENSORRT_MAJOR > 8 and neither fp16_enable_ nor int8_enable_ is set
StronglyTyped(major, fp16, int8) ==
  major > 8 /\ ~(fp16 \/ int8)

\* lines 856-872: the builder flags and the tags of the precision
PrecisionFlags(fp16, int8) ==
  (IF fp16 THEN {"kFP16"} ELSE {}) \cup (IF int8 THEN {"kINT8"} ELSE {})

PrecisionTags(fp16, int8) ==
  IF fp16 /\ int8 THEN <<"_fp16_int8">>
  ELSE IF fp16 THEN <<"_fp16">>
  ELSE IF int8 THEN <<"_int8">>
  ELSE <<>>

\* std::to_string of a DLA core index, a non-negative int below ten
to_string(n) == <<"0", "1", "2", "3", "4", "5", "6", "7", "8", "9">>[n + 1]

\* lines 874-893: the DLA block
SetDla(b, nb_dla) ==
  IF (b.fp16_enable_ \/ b.int8_enable_) /\ b.dla_enable_ /\ b.dla_core_ >= 0
  THEN IF nb_dla = 0
       THEN [b EXCEPT !.dla_enable_ = FALSE]
       ELSE LET core == IF b.dla_core_ >= nb_dla THEN 0 ELSE b.dla_core_
            IN [b EXCEPT !.dla_core_ = core,
                         !.flags = @ \cup {"kGPU_FALLBACK"},
                         !.device = "kDLA", !.dla_core_set = <<core>>,
                         !.tags = @ \o <<"_dlacore", to_string(core)>>]
  ELSE b

\* the members the block reads and writes, the platform, and what the last
\* call made of them; asked_* are the members as the call found them
BuilderState(fp16, int8, dla, core, fallback, major, fast_fp16, fast_int8, nb_dla) ==
  [fp16_enable_ |-> fp16, int8_enable_ |-> int8, dla_enable_ |-> dla,
   dla_core_ |-> core, layer_norm_fp32_fallback_ |-> fallback, major |-> major,
   fast_fp16 |-> fast_fp16, fast_int8 |-> fast_int8, nb_dla |-> nb_dla,
   status |-> "none", asked_fp16 |-> fp16, asked_int8 |-> int8,
   asked_dla |-> dla, asked_core |-> core, strongly_typed |-> FALSE,
   parsed |-> <<>>, layers |-> <<>>, flags |-> {}, device |-> "kGPU",
   dla_core_set |-> <<>>, tags |-> <<>>]

\* lines 668-893 of CreateNodeComputeInfoFromGraph for a network of these
\* layers; readable tells whether ReadDynamicRange (851) succeeds
ConfigureBuilder(s, layers, readable, calibration) ==
  LET b0 == [s EXCEPT !.asked_fp16 = s.fp16_enable_, !.asked_int8 = s.int8_enable_,
                      !.asked_dla = s.dla_enable_, !.asked_core = s.dla_core_,
                      !.strongly_typed = StronglyTyped(s.major, s.fp16_enable_,
                                                       s.int8_enable_),
                      !.parsed = layers,
                      !.layers = IF s.fp16_enable_ /\ s.layer_norm_fp32_fallback_
                                 THEN LayerNormFallback(layers) ELSE layers,
                      !.flags = {}, !.device = "kGPU", !.dla_core_set = <<>>,
                      !.tags = <<>>, !.status = "run"]
      b1 == [b0 EXCEPT !.fp16_enable_ = @ /\ s.fast_fp16,
                       !.int8_enable_ = @ /\ s.fast_int8]
  IN IF b1.int8_enable_ /\ calibration /\ ~readable
     THEN [b1 EXCEPT !.status = "throw"]
     ELSE LET b2 == [b1 EXCEPT !.flags = PrecisionFlags(b1.fp16_enable_, b1.int8_enable_),
                               !.tags = PrecisionTags(b1.fp16_enable_, b1.int8_enable_)]
              b3 == SetDla(b2, s.nb_dla)
          IN [b3 EXCEPT !.status = IF @ = "run" THEN "ok" ELSE @]

\* the configurations of the provider and the platforms: a DLA core index
\* from the options, one or two DLA cores or none
BuilderStates ==
  {BuilderState(fp16, int8, dla[1], dla[2], fallback, major, fast_fp16, fast_int8, nb) :
     fp16 \in BOOLEAN, int8 \in BOOLEAN,
     dla \in {<<FALSE, 0>>, <<TRUE, -1>>, <<TRUE, 0>>, <<TRUE, 1>>, <<TRUE, 2>>},
     fallback \in BOOLEAN, major \in Majors,
     fast_fp16 \in BOOLEAN, fast_int8 \in BOOLEAN, nb \in {0, 2}}

InitBuilder ==
  /\ cfg = DefaultOptions
  /\ fused_nodes = <<[ctx |-> FALSE, net |-> <<StaticInput("x")>>]>>
  /\ locals \in BuilderStates
  /\ profile_min_shapes_ = EmptyMap
  /\ profile_max_shapes_ = EmptyMap
  /\ profile_opt_shapes_ = EmptyMap
  /\ disk = NoDisk
  /\ node = "uncompiled"
  /\ engine = NullEngine
  /\ context = "null"
  /\ input_shape_ranges_ = EmptyMap
  /\ weight_stripped_engine_refit_ = FALSE
  /\ history = NoHistory
  /\ compiled = NotCompiled
  /\ bad_destroy = FALSE
  /\ crashed = FALSE
  /\ last_call = NoCall
  /\ pc = EmptyMap
  /\ tensorrt_mu_ = 0
  /\ api_lock = 0
  /\ refit_call = EmptyMap
  /\ copy_call = EmptyMap
  /\ trt_state = NoShortFuncState
  /\ dds_output_allocator_maps_ = EmptyMap
  /\ bind_call = NoBinding

\* the provider compiles one more fused node from its graph
ConfigureNode ==
  /\ locals.status # "throw"
  /\ \E layers \in LayerLists, readable \in BOOLEAN :
       locals' = ConfigureBuilder(locals, layers, readable, TRUE)
  /\ UNCHANGED <<cfg, fused_nodes, profile_min_shapes_, profile_max_shapes_,
                 profile_opt_shapes_, disk, node, engine, context,
                 input_shape_ranges_, weight_stripped_engine_refit_, history,
                 compiled, bad_destroy, crashed, last_call, pc, tensorrt_mu_,
                 api_lock, refit_call, copy_call, trt_state,
                 dds_output_allocator_maps_, bind_call>>

NextBuilder == ConfigureNode

SpecBuilder == InitBuilder /\ [][NextBuilder]_vars

(***************************************************************************)
(* Properties of Spec.                                                     *)
(***************************************************************************)
\* the fused node was compiled from a graph with a dynamic dimension and no
\* explicit profile
ImplicitDynamic ==
  /\ ~IsCtxNode
  /\ DOMAIN profile_min_shapes_ = {}
  /\ \E k \in 1 .. Len(network) : DynamicDims(network[k]) # {}

\* the fold of the latest call changed an entry of the store
RangesChanged == last_call.folded /\ last_call.post # last_call.folded_from

\* the latest call went through the whole regenerate branch
FullRebuild ==
  /\ last_call.released /\ last_call.build_invoked
  /\ last_call.engine_built /\ last_call.context_created

\* the latest call ran past the regenerate branch
PastRebuild == last_call.status \in {"ok", "error_enqueue", "crash", "undefined"}

Widened(pre, post) ==
  \A n \in DOMAIN pre \cap DOMAIN post :
    \A d \in DOMAIN pre[n] \cap DOMAIN post[n] :
      \A i \in DOMAIN pre[n][d] \cap DOMAIN post[n][d] :
        /\ post[n][d][i][1] <= pre[n][d][i][1]
        /\ post[n][d][i][2] >= pre[n][d][i][2]
        /\ post[n][d][i][3] >= pre[n][d][i][3]

StoredTriple == input_shape_ranges_["x"][0][1]

\* the observed value lay outside the range stored before the call
OutOfRange ==
  \/ last_call.obs < last_call.pre["x"][0][1][1]
  \/ last_call.obs > last_call.pre["x"][0][1][2]

\* the store and the rebuilds that C3 describes
SentinelFolding ==
  /\ StoredTriple = <<history.seen_min, history.seen_max, history.seen_max>>
  /\ last_call.released <=> OutOfRange

ExplicitConfigured ==
  /\ DOMAIN profile_min_shapes_ # {}
  /\ DOMAIN profile_max_shapes_ # {}
  /\ DOMAIN profile_opt_shapes_ # {}

\* the inputs of a network that need a profile and have none
Lacking(net) ==
  {net[k].name : k \in {i \in 1 .. Len(net) :
                          /\ SeesDynamic(net[i])
                          /\ net[i].name \notin DOMAIN profile_min_shapes_}}

\* C9: with explicit profiles configured, a subgraph compiles only if no
\* dynamic or shape-tensor input lacks a profile; otherwise its compile and
\* the Compile call fail, the error names exactly the inputs that lack one,
\* and no profile was added to the builder config.
C9_ExplicitProfilesCoverInputs ==
  \A j \in DOMAIN compiled.results :
    (ExplicitConfigured /\ ~compiled.results[j].ctx) =>
      /\ compiled.results[j].status = "ok" => Lacking(compiled.results[j].net) = {}
      /\ Lacking(compiled.results[j].net) # {} =>
           /\ compiled.results[j].status = "error_profile"
           /\ compiled.status = "error"
           /\ compiled.results[j].missing = Lacking(compiled.results[j].net)
           /\ compiled.results[j].config_profiles = <<>>

\* a subgraph with two dynamic inputs of which one has a profile is refused,
\* and one whose dynamic inputs all have a profile compiles
C9_Witness ==
  /\ ExplicitConfigured
  /\ \E j \in DOMAIN compiled.results :
       /\ ~compiled.results[j].ctx
       /\ Len(compiled.results[j].net) = 2
       /\ compiled.results[j].status = "error_profile"
       /\ compiled.results[j].missing = {"b"}
  /\ \E j \in DOMAIN compiled.results :
       /\ ~compiled.results[j].ctx
       /\ \E k \in 1 .. Len(compiled.results[j].net) :
            SeesDynamic(compiled.results[j].net[k])
       /\ compiled.results[j].status = "ok"
       /\ compiled.results[j].config_profiles # <<>>

\* C10: after a successful Compile every pair's compute-info record has its
\* three callbacks set.
C10_CallbacksSet ==
  compiled.status = "ok" =>
    \A j \in DOMAIN compiled.info : compiled.info[j] = AllCallbacks

(***************************************************************************)
(* Properties of SpecRefit.                                                *)
(***************************************************************************)
\* the path RefitEngine checks and hands to refitFromFile
RefitPath == PathAppend(refit_call.folder, refit_call.filename)

\* C8: RefitEngine reaches the refit step only for a relative path with no
\* ".." component, and otherwise returns an error with the engine unrefitted.
C8_RefitOnlyCheckedPath ==
  refit_call.done =>
    /\ refit_call.result.reached =>
         ~IsAbsolutePath(RefitPath) /\ ~IsRelativePathToParentPath(RefitPath)
    /\ (IsAbsolutePath(RefitPath) \/ IsRelativePathToParentPath(RefitPath)) =>
         refit_call.result.status # "ok" /\ ~refit_call.result.refitted

\* C40: RefitEngine writes the refitted engine cache file only when
\* refitFromFile and refitCudaEngine both succeeded and serialization was
\* asked for; a build below major 10, a failed path check, a missing model
\* file or a failing refit step ends in an error with no file written.
C40_WritesOnlyRefitted ==
  refit_call.done =>
    /\ refit_call.result.wrote =>
         /\ refit_call.result.status = "ok" /\ refit_call.result.refitted
         /\ refit_call.fault = "none" /\ refit_call.serialize
    /\ (\/ refit_call.major < 10
        \/ ~refit_call.exists
        \/ refit_call.path_check
             /\ (IsAbsolutePath(RefitPath) \/ IsRelativePathToParentPath(RefitPath))
        \/ refit_call.fault # "none") =>
         refit_call.result.status # "ok" /\ ~refit_call.result.wrote

\* a refit that succeeded and wrote the refitted engine
C40_Witness ==
  /\ refit_call.done /\ refit_call.result.status = "ok"
  /\ refit_call.serialize /\ refit_call.result.wrote

\* a refit whose refitCudaEngine failed with serialization asked for
C40_FailedWitness ==
  /\ refit_call.done /\ refit_call.fault = "refitCudaEngine"
  /\ refit_call.result.reached /\ refit_call.serialize
  /\ ~refit_call.result.wrote

(***************************************************************************)
(* Properties of SpecConc.                                                 *)
(***************************************************************************)
\* thread t is inside the compute function body of the fused node
InBody(t) ==
  pc[t] \in {"locked", "folded", "want_build", "building", "tail", "ctx_body"}

\* thread t is inside buildSerializedNetwork
InBuild(t) == pc[t] \in {"building", "compile_building"}

\* thread t is rebuilding the engine of the fused node
InRebuild(t) ==
  \/ pc[t] \in {"want_build", "building"}
  \/ pc[t] = "tail" /\ locals[t].engine_update

\* C4: no two threads are inside the compute function body of the fused
\* node at the same time.
C4_OneThreadInBody ==
  \A t1, t2 \in Threads : (InBody(t1) /\ InBody(t2)) => t1 = t2

CacheFileOf(c, d) ==
  IF c.engine_decryption_enable THEN d.encrypted
  ELSE IF c.weight_stripped_engine_enable /\ d.engine.state = "absent"
       THEN d.stripped ELSE d.engine

\* the pairs of the Compile call whose engine is made at compile time
CompileTimePairs ==
  {j \in 1 .. Len(compiled.results) :
     /\ ~compiled.results[j].ctx
     /\ compiled.results[j].status # "error_profile"
     /\ ~compiled.results[j].has_dynamic_shape}

CompileLoadTried(r) ==
  r.loaded \/ r.status \in {"error_cache_deserialize", "error_decrypt"}

CompileBuildTried(r) == r.build_invoked \/ r.status = "error_timing_create"

ProfileMatches(r) ==
  /\ r.disk_before.profile.state # "absent"
  /\ DeserializeProfileV2(r.disk_before.profile.rows) = r.explicit

\* the cache is usable at compile time: the engine file exists and, with
\* explicit profiles, the profile file exists and equals the request
CompileCacheHit(r) ==
  /\ CacheFileOf(cfg, r.disk_before).state # "absent"
  /\ r.has_explicit_profile => ProfileMatches(r)

\* the cache is usable by a compute call: no engine is held and both files exist
ComputeCacheHit ==
  /\ ~last_call.pre_engine_live
  /\ CacheFileOf(cfg, last_call.pre_disk).state # "absent"
  /\ last_call.pre_disk.profile.state # "absent"

ComputeBuildTried ==
  last_call.build_invoked \/ last_call.status = "error_timing_create"

OnlyOneFile(d) ==
  (CacheFileOf(cfg, d).state = "absent") # (d.profile.state = "absent")

\* the engine and profile cache files of d were written for the same ranges
FilesMatch(d) ==
  /\ CacheFileOf(cfg, d).state = "valid"
  /\ d.profile.state # "absent"
  /\ DeserializeProfileV2(d.profile.rows) = CacheFileOf(cfg, d).built_for

StaleProfile(r) ==
  /\ cfg.engine_cache_enable /\ r.has_explicit_profile
  /\ r.disk_before.profile.state # "absent"
  /\ DeserializeProfileV2(r.disk_before.profile.rows) # r.explicit

HoldsRequested(r) ==
  /\ r.disk_after.profile.state # "absent"
  /\ DeserializeProfileV2(r.disk_after.profile.rows) = r.explicit

C16_EnqueueFailureStops ==
  (last_call.valid /\ last_call.enqueue = "false") =>
    /\ last_call.status = "error_enqueue"
    /\ ~last_call.finalized
    /\ ~last_call.capture_ended

\* enqueueV3 failed in a call that had begun a graph capture
C16_Witness ==
  /\ last_call.valid /\ last_call.enqueue = "false"
  /\ last_call.capture_begun

\* C17: a compute call that returns normally has synchronized its stream
\* exactly when the sync_stream_after_enqueue policy is on and the graph
\* capture is not enabled
C17_SyncIffPolicyAndNoCapture ==
  (last_call.valid /\ last_call.status = "ok") =>
    (last_call.synced <=>
       cfg.sync_stream_after_enqueue_ /\ ~cfg.cuda_graph_enable_)

(***************************************************************************)
(* Properties of SpecCopy.                                                 *)
(***************************************************************************)
\* C18: CanCopy answers true exactly when the source or the target is a GPU
\* device or has the CUDA-pinned memory type
C18_CanCopyIffGpuOrPinned ==
  copy_call.asked =>
    (copy_call.can_copy <=>
       \E d \in {copy_call.source, copy_call.target} :
         d.device_type = "GPU" \/ d.mem_type = "CUDA_PINNED")

\* CanCopy answered true for a pair whose only GPU or pinned side is the target
C18_Witness ==
  /\ copy_call.asked /\ copy_call.can_copy
  /\ copy_call.source.device_type # "GPU"
  /\ copy_call.source.mem_type # "CUDA_PINNED"

\* the copy calls of a CopyTensor call
IsCopy(e) == e.call \in {"cudaMemcpy", "cudaMemcpyAsync", "memcpy"}

DevicePair == <<copy_call.source.device_type, copy_call.target.device_type>>

\* C19 (amended): GPU to GPU issues one device-to-device copy, asynchronous
\* on the stream when one is given and synchronous otherwise, and nothing
\* when source and destination are the same address; CPU to GPU and GPU to
\* CPU issue the asynchronous copy on the stream when one is given and
\* otherwise a synchronous copy followed by a synchronize; CPU to CPU ends
\* in a plain host memcpy and issues no CUDA copy.
C19_CopyByDevicePair ==
  copy_call.copied =>
    LET calls == copy_call.calls
        stream == copy_call.stream
    IN
    /\ DevicePair = <<"GPU", "GPU">> =>
         IF copy_call.src = copy_call.dst THEN calls = <<>>
         ELSE calls = <<CudaCall(IF stream # "nullptr" THEN "cudaMemcpyAsync"
                                 ELSE "cudaMemcpy",
                                 "DeviceToDevice",
                                 IF stream # "nullptr" THEN stream ELSE "none")>>
    /\ DevicePair \in {<<"CPU", "GPU">>, <<"GPU", "CPU">>} =>
         LET kind == IF DevicePair[1] = "CPU" THEN "HostToDevice"
                     ELSE "DeviceToHost"
         IN IF stream # "nullptr"
            THEN calls = <<CudaCall("cudaMemcpyAsync", kind, stream)>>
            ELSE calls = <<CudaCall("cudaMemcpy", kind, "none"),
                           CudaCall("cudaStreamSynchronize", "", "nullptr")>>
    /\ DevicePair = <<"CPU", "CPU">> =>
         /\ calls[Len(calls)].call = "memcpy"
         /\ \A i \in 1 .. Len(calls) :
              calls[i].call \notin {"cudaMemcpy", "cudaMemcpyAsync"}

\* a copy from the CPU to the GPU without a stream
C19_Witness ==
  /\ copy_call.copied
  /\ DevicePair = <<"CPU", "GPU">> /\ copy_call.stream = "nullptr"
  /\ Len(copy_call.calls) = 2

\* C19 as stated: GPU to GPU issues a device-to-device copy
C19_AsStated ==
  (copy_call.copied /\ DevicePair = <<"GPU", "GPU">>) =>
    \E i \in 1 .. Len(copy_call.calls) :
      copy_call.calls[i].kind = "DeviceToDevice"

\* the first call synchronizes the supplied stream and a copy follows it
SyncedBeforeCopy ==
  /\ Len(copy_call.calls) >= 2
  /\ copy_call.calls[1] = CudaCall("cudaStreamSynchronize", "", copy_call.stream)
  /\ IsCopy(copy_call.calls[2])

\* C20 (amended): CopyTensor synchronizes the supplied stream before the
\* copy exactly when a stream is supplied, the source memory is CUDA-pinned
\* and the pair is none of GPU to GPU, CPU to GPU and GPU to CPU; the
\* memory type of the destination plays no part.
C20_PinnedSourceHostCopySyncs ==
  copy_call.copied =>
    (SyncedBeforeCopy <=>
       /\ copy_call.stream # "nullptr"
       /\ copy_call.source.mem_type = "CUDA_PINNED"
       /\ DevicePair \notin {<<"GPU", "GPU">>, <<"CPU", "GPU">>, <<"GPU", "CPU">>})

\* a host copy from pinned memory synchronized the stream first
C20_Witness ==
  /\ copy_call.copied /\ SyncedBeforeCopy
  /\ DevicePair = <<"CPU", "CPU">>
  /\ copy_call.source.mem_type = "CUDA_PINNED"

\* C20 as stated: every copy on a supplied stream whose source or
\* destination is CUDA-pinned synchronizes the stream before the copy
C20_AsStated ==
  (/\ copy_call.copied /\ copy_call.stream # "nullptr"
   /\ \/ copy_call.source.mem_type = "CUDA_PINNED"
      \/ copy_call.target.mem_type = "CUDA_PINNED")
    => SyncedBeforeCopy

\* ---------------------------------------------------------------------
\* Properties of SpecBind: binding of inputs and outputs
\* ---------------------------------------------------------------------

BindInputIds == 1 .. Len(trt_state.inputs)
BindOutputIds == 1 .. Len(trt_state.outputs)

\* a ComputeFunc call has been made
Called == bind_call.status # "none"

\* the address the last call set for a tensor name, if any
Bound(name) == name \in DOMAIN bind_call.address

\* the last call made this call of the context or the stream
Issued(op, name) ==
  \E k \in 1 .. Len(bind_call.trace) :
    bind_call.trace[k].op = op /\ bind_call.trace[k].name = name

\* an element type that is bound through a narrower transport type
NeedsTransport(type) == type = "DOUBLE" \/ (type = "INT64" /\ trt_state.major < 10)

\* C21: an execution-tensor input of type float64, or of type int64 on a
\* builder major below 10, is bound: it is cast into a scratch buffer of the
\* call and the address of that buffer is set on the context.
C21_CastInputBound ==
  \A i \in BindInputIds :
    (/\ Called /\ bind_call.in.fault = "none"
     /\ ~trt_state.inputs[i].shape_tensor
     /\ NeedsTransport(trt_state.inputs[i].type)
     /\ bind_call.in.inputs[i].elem_cnt > 0)
    => /\ Bound(trt_state.inputs[i].name)
       /\ bind_call.address[trt_state.inputs[i].name].kind = "scratch"
       /\ Issued("Impl_Cast", trt_state.inputs[i].name)

\* the element types the binding switches are specified to cover
CoveredTypes ==
  {"FLOAT", "FLOAT16", "BOOL", "INT8", "UINT8", "INT32", "INT64", "DOUBLE"}

\* the last call came as far as binding input i / output i
ReachedInput(i) ==
  /\ Called
  /\ \A j \in 1 .. i - 1 : Bound(trt_state.inputs[j].name)

ReachedOutput(i) ==
  /\ ReachedInput(Len(trt_state.inputs) + 1)
  /\ \A j \in 1 .. i - 1 :
       Bound(trt_state.outputs[j].name) \/ trt_state.outputs[j].name \in DOMAIN bind_call.dds

\* an output of the last call that was bound ahead of enqueueV3
PreBound(i) ==
  /\ ~bind_call.in.outputs[i].is_DDS
  /\ trt_state.outputs[i].name \notin bind_call.known

\* the call returned an error without binding the tensor or launching
FailedAt(name) ==
  /\ bind_call.status = "ORT_EP_FAIL"
  /\ ~Bound(name)
  /\ ~Issued("enqueueV3", "")

IssuedWith(op, name, n) ==
  \E k \in 1 .. Len(bind_call.trace) :
    /\ bind_call.trace[k].op = op
    /\ bind_call.trace[k].name = name
    /\ bind_call.trace[k].n = n

\* enqueueV3 of the last call returned true and nothing failed by fault
Launched == Called /\ bind_call.in.fault = "none" /\ Issued("enqueueV3", "")

\* C23: after a successful enqueueV3 every output that has a DDS allocator
\* and a covered element type, float64 included, has its host tensor
\* requested with the shape the allocator recorded and filled from the
\* allocator's buffer, and nothing is copied for a shape of zero elements.
C23_DdsOutputFilled ==
  \A i \in BindOutputIds :
    LET output == trt_state.outputs[i]
    IN (/\ Launched
        /\ output.name \in DOMAIN bind_call.dds
        /\ output.type \in CoveredTypes)
       => /\ IssuedWith("GetOutput", output.name, bind_call.dds[output.name].shape)
          /\ i \in bind_call.holds_result
          /\ bind_call.dds[output.name].shape = 0
               => ~Issued("cudaMemcpyAsync", output.name)
          /\ bind_call.status = "ok"

\* C24: a pre-bound output whose element type needs a transport type is
\* bound to a scratch buffer of the transport type, and after enqueueV3 a
\* cast of the remembered element count widens it into the host tensor, so
\* the host tensor holds the engine's result when the call returns.
C24_TransportOutputWidened ==
  \A i \in BindOutputIds :
    LET output == trt_state.outputs[i]
        n == bind_call.in.outputs[i].elem_cnt
    IN (/\ Launched /\ PreBound(i)
        /\ NeedsTransport(output.type)
        /\ n > 0
        /\ \A j \in 1 .. i - 1 : j \in bind_call.holds_result)
       => /\ Bound(output.name)
          /\ bind_call.address[output.name].kind = "scratch"
          /\ bind_call.scratch_buffers[bind_call.address[output.name].id].bytes = n * 4
          /\ IssuedWith("Impl_Cast", output.name, n)
          /\ i \in bind_call.holds_result

\* the places of the trace where scratch buffer k is allocated / released
ScratchEvents(op, k) ==
  {p \in 1 .. Len(bind_call.trace) :
     bind_call.trace[p] = BindEvent(op, "", "scratch_buffers", k)}

EnqueueEvents ==
  {p \in 1 .. Len(bind_call.trace) : bind_call.trace[p].op = "enqueueV3"}

\* the last ComputeFunc call returned to the host
CallReturned == Called /\ bind_call.status # "abort"

\* C25: when a ComputeFunc call returns, with success or with any error,
\* every scratch buffer it allocated has been released exactly once, after
\* its allocation and after the enqueueV3 of the call if there was one.
C25_ScratchReleasedOnce ==
  CallReturned =>
    \A k \in 1 .. Len(bind_call.scratch_buffers) :
      /\ bind_call.scratch_buffers[k].frees = 1
      /\ Cardinality(ScratchEvents("Alloc", k)) = 1
      /\ Cardinality(ScratchEvents("Free", k)) = 1
      /\ \A f \in ScratchEvents("Free", k) :
           /\ \A a \in ScratchEvents("Alloc", k) : a < f
           /\ \A e \in EnqueueEvents : e < f

\* a call that held a placeholder and a staging buffer when enqueueV3 failed
C25_Witness ==
  /\ bind_call.status = "ORT_FAIL"
  /\ bind_call.in.fault = "enqueueV3"
  /\ \E j, k \in 1 .. Len(bind_call.scratch_buffers) :
       /\ bind_call.scratch_buffers[j].bytes = 1
       /\ bind_call.scratch_buffers[k].bytes > 1
  /\ \A k \in 1 .. Len(bind_call.scratch_buffers) :
       bind_call.scratch_buffers[k].frees = 1

\* the host tensor of an output was requested at bind time
PreAllocated(name) ==
  \E k \in 1 .. Len(bind_call.trace) :
    /\ bind_call.trace[k].op = "GetOutput"
    /\ bind_call.trace[k].name = name
    /\ bind_call.trace[k].arg = "declared"

\* C30: over any sequence of ComputeFunc calls an output name gets at most
\* one allocator; an output that reports a -1 dimension, or that has an
\* allocator from an earlier call whatever its dimensions are now, is not
\* pre-allocated from the kernel context and gets no tensor address at bind
\* time, and keeps its allocator.
C30_OneAllocatorPerOutput ==
  /\ \A name \in DOMAIN dds_output_allocator_maps_ :
       dds_output_allocator_maps_[name].installs = 1
  /\ bind_call.known \subseteq DOMAIN dds_output_allocator_maps_
  /\ \A i \in BindOutputIds :
       LET name == trt_state.outputs[i].name
       IN /\ name \in bind_call.known => ~Issued("setOutputAllocator", name)
          /\ (ReachedOutput(i) /\ ~PreBound(i))
              => /\ ~PreAllocated(name)
                 /\ ~Bound(name)
                 /\ name \in DOMAIN dds_output_allocator_maps_

\* a later call on an output that has an allocator and now reports concrete
\* dimensions: it is finalized from the allocator
C30_Witness ==
  /\ Launched
  /\ trt_state.outputs[1].name \in bind_call.known
  /\ ~bind_call.in.outputs[1].is_DDS
  /\ ~Bound(trt_state.outputs[1].name)
  /\ IssuedWith("GetOutput", trt_state.outputs[1].name,
                bind_call.in.outputs[1].elem_cnt)
  /\ ~PreAllocated(trt_state.outputs[1].name)

\* ---------------------------------------------------------------------
\* Properties of SpecBind: addresses of the inputs
\* ---------------------------------------------------------------------

\* the tensor the kernel context handed out for engine input i
KernelInputOf(i) ==
  bind_call.in.inputs[bind_call.input_index[trt_state.inputs[i].name] + 1]

\* engine input i is an execution tensor whose address the last call set
BoundExecution(i) ==
  /\ Called /\ ~trt_state.inputs[i].shape_tensor
  /\ Bound(trt_state.inputs[i].name)

\* engine input i got a tensor without elements or without data
EmptyInput(i) ==
  BoundExecution(i) /\ (KernelInputOf(i).elem_cnt = 0 \/ KernelInputOf(i).null)

\* the places of the trace that are not the release of a scratch buffer
WorkEvents ==
  {p \in 1 .. Len(bind_call.trace) : bind_call.trace[p].op # "Free"}

\* scratch buffer k is one byte, allocated once before position p of the
\* trace and released by nothing but the return of the call
LiveByte(k, p) ==
  /\ k \in 1 .. Len(bind_call.scratch_buffers)
  /\ bind_call.scratch_buffers[k].bytes = 1
  /\ \E a \in ScratchEvents("Alloc", k) : a < p
  /\ \A f \in ScratchEvents("Free", k) : \A w \in WorkEvents : w < f

\* C31: every execution-tensor input a ComputeFunc call binds gets the
\* address of its tensor's data or of a scratch buffer, never a null
\* address; an input whose tensor has no elements or a null data pointer
\* gets a scratch buffer of one byte that no other input of the call gets
\* and that is not released before the call returns.
C31_EmptyInputsDistinct ==
  \A i \in BindInputIds :
    BoundExecution(i) =>
      LET a == bind_call.address[trt_state.inputs[i].name] IN
      /\ a.kind \in {"tensor", "scratch"}
      /\ a.kind = "tensor" => ~KernelInputOf(i).null /\ KernelInputOf(i).elem_cnt > 0
      /\ EmptyInput(i) =>
           /\ a.kind = "scratch"
           /\ \A p \in 1 .. Len(bind_call.trace) :
                bind_call.trace[p] =
                  BindEvent("setTensorAddress", trt_state.inputs[i].name, "scratch", a.id)
                => LiveByte(a.id, p)
           /\ \A j \in BindInputIds \ {i} :
                BoundExecution(j) => bind_call.address[trt_state.inputs[j].name] # a

\* a call that bound two empty inputs and went on to enqueueV3
C31_Witness ==
  /\ Len(trt_state.inputs) = 2
  /\ EmptyInput(1) /\ EmptyInput(2)
  /\ bind_call.address[trt_state.inputs[1].name] # bind_call.address[trt_state.inputs[2].name]
  /\ Issued("enqueueV3", "")
  /\ bind_call.status = "ok"

\* ---------------------------------------------------------------------
\* Properties of SpecBind: shape-tensor inputs
\* ---------------------------------------------------------------------

\* the places of the trace where this call was made for this tensor
EventsOf(op, name) ==
  {p \in 1 .. Len(bind_call.trace) :
     bind_call.trace[p].op = op /\ bind_call.trace[p].name = name}

\* engine input i is a shape tensor of an integer type
IntShapeInput(i) ==
  /\ trt_state.inputs[i].shape_tensor
  /\ trt_state.kernel_inputs[LookupIndex(trt_state.input_indexes,
                                         trt_state.inputs[i].name) + 1].type
       \in {"INT32", "INT64"}

\* the last call returned the error of this text, naming the input
FailedNaming(text) ==
  /\ bind_call.status = "ORT_EP_FAIL"
  /\ bind_call.message = [text |-> text, mentions |-> "input"]
  /\ ~Issued("enqueueV3", "")

C32_RejectedWitness ==
  /\ Called /\ IntShapeInput(1) /\ bind_call.in.fault = "setTensorAddress"
  /\ FailedNaming("failed to call setTensorAddress() for shape input")

\* ---------------------------------------------------------------------
\* Properties of SpecBind: engine tensors and kernel context indices
\* ---------------------------------------------------------------------

\* C33: every engine input the last call bound was bound to the tensor of
\* the kernel input that has the engine tensor's name, and every engine
\* output for which the call fetched a kernel output fetched the one that
\* has the engine tensor's name; an engine tensor without an index entry
\* gets the tensor of no other input or output.
C33_BoundByName ==
  Called =>
    /\ \A i \in BindInputIds :
         LET name == trt_state.inputs[i].name IN
         name \in DOMAIN bind_call.input_index =>
           trt_state.kernel_inputs[bind_call.input_index[name] + 1].name = name
    /\ \A j \in BindOutputIds :
         LET name == trt_state.outputs[j].name IN
         name \in DOMAIN bind_call.output_index =>
           trt_state.kernel_outputs[bind_call.output_index[name] + 1].name = name

\* ---------------------------------------------------------------------
\* Properties of SpecBind: shared context memory
\* ---------------------------------------------------------------------

\* the places of the trace of a call on the context memory
ContextMemoryEvents(op) ==
  {p \in 1 .. Len(bind_call.trace) :
     bind_call.trace[p] = BindEvent(op, "", "context_memory", trt_state.max_ctx_mem_size_)}

\* the shared maximum is not below what the earlier nodes left and not below
\* the size of this node's engine
MaxCoversEngines ==
  trt_state.context_memory_sharing_enable =>
    /\ trt_state.max_ctx_mem_size_ >= trt_state.prior_max
    /\ trt_state.max_ctx_mem_size_ >= trt_state.mem_size

\* C34: with context memory sharing the shared maximum is never below an
\* earlier value of it nor below the device memory size of an engine that
\* was compiled or launched, and when enqueueV3 is called the context holds
\* a buffer of the maximum size that was allocated and not yet released.
C34_ContextMemoryLive ==
  /\ MaxCoversEngines
  /\ (Called /\ trt_state.context_memory_sharing_enable) =>
       \A e \in EnqueueEvents :
         \E a \in ContextMemoryEvents("Alloc") :
           \E s \in ContextMemoryEvents("setDeviceMemory") :
             /\ a < s /\ s < e
             /\ \A f \in ContextMemoryEvents("Free") : e < f

\* ---------------------------------------------------------------------
\* Properties of SpecBind: graph capture and the order of the stages
\* ---------------------------------------------------------------------

\* the call just made returned without an error
RanToEnd == bind_call'.status = "ok"

\* the call just made began a capture before enqueueV3 and ended it after
\* the last call made for its outputs
CaptureAround ==
  \E cb \in 1 .. Len(bind_call'.trace) : \E ce \in 1 .. Len(bind_call'.trace) :
    /\ bind_call'.trace[cb].op = "CaptureBegin"
    /\ bind_call'.trace[ce].op = "CaptureEnd"
    /\ \A p \in 1 .. Len(bind_call'.trace) :
         /\ bind_call'.trace[p].op = "enqueueV3" => cb < p /\ p < ce
         /\ bind_call'.trace[p].op \in {"cudaMemcpyAsync", "Impl_Cast", "GetOutput"}
              => p < ce

\* C35: with graph capture enabled, an inference that ends before the
\* warm-up threshold is reached adds one to the regular-run counter and
\* begins no capture; an inference that ends once the threshold is reached
\* and no graph is captured begins a capture before enqueueV3, ends it after
\* the outputs are finalized and leaves the graph captured; a captured graph
\* stays captured and no capture begins after it.
C35_WarmupThenCapture ==
  [][trt_state.cuda_graph_enable_ /\ RanToEnd =>
       /\ (~IsGraphCaptureAllowed(trt_state) /\ ~IsGraphCaptured(trt_state)) =>
            /\ trt_state'.regular_run_count_before_graph_capture_ =
                 trt_state.regular_run_count_before_graph_capture_ + 1
            /\ \A p \in 1 .. Len(bind_call'.trace) :
                 bind_call'.trace[p].op # "CaptureBegin"
       /\ (IsGraphCaptureAllowed(trt_state) /\ ~IsGraphCaptured(trt_state)) =>
            CaptureAround /\ IsGraphCaptured(trt_state')
       /\ IsGraphCaptured(trt_state) =>
            /\ IsGraphCaptured(trt_state')
            /\ \A p \in 1 .. Len(bind_call'.trace) :
                 bind_call'.trace[p].op # "CaptureBegin"]_vars

\* the places of the trace of the calls of one stage
StageEvents(ops, args) ==
  {p \in 1 .. Len(bind_call.trace) :
     bind_call.trace[p].op \in ops /\ bind_call.trace[p].arg \in args}

\* every place of the first set comes before every place of the second
Precede(first, second) == \A p \in first : \A q \in second : p < q

\* the calls of the stages of a ComputeFunc call
InputStage == StageEvents({"GetInput", "setInputShape"}, {""})
OutputStage == StageEvents({"GetOutput"}, {"declared"}) \cup StageEvents({"setOutputAllocator"}, {""})
MemoryStage == StageEvents({"setDeviceMemory"}, {"context_memory"})
FinalStage ==
  StageEvents({"GetOutput"}, {"recorded"})
    \cup StageEvents({"cudaMemcpyAsync"}, {"DeviceToDevice"})
    \cup StageEvents({"Impl_Cast"}, {"widen"})
StreamSync == StageEvents({"cudaStreamSynchronize"}, {""})

\* C36: in one ComputeFunc call the inputs are bound before the outputs,
\* the outputs before the context memory is set, that before enqueueV3,
\* enqueueV3 before the copies and casts of the outputs, and those before
\* the stream is synchronized, so that a call that synchronized left no
\* copy or cast of its own behind the synchronization.
C36_StagesInOrder ==
  Called =>
    /\ Precede(InputStage, OutputStage)
    /\ Precede(OutputStage, MemoryStage)
    /\ Precede(InputStage \cup OutputStage \cup MemoryStage, EnqueueEvents)
    /\ Precede(EnqueueEvents, FinalStage)
    /\ Precede(FinalStage, StreamSync)

\* the order the call has: the synchronization comes straight after
\* enqueueV3 and before the outputs are finalized
StagesAsCoded ==
  Called =>
    /\ Precede(InputStage, OutputStage)
    /\ Precede(OutputStage, MemoryStage)
    /\ Precede(InputStage \cup OutputStage \cup MemoryStage, EnqueueEvents)
    /\ Precede(EnqueueEvents, StreamSync)
    /\ Precede(StreamSync, FinalStage)

\* ---------------------------------------------------------------------
\* Properties of SpecBuilder
\* ---------------------------------------------------------------------

\* the last call configured a builder
Configured == locals.status = "ok"

\* C37: on a build for a major above 8, the network of a configured node
\* is strongly typed exactly when its builder configuration has neither
\* the FP16 nor the INT8 flag, also when a requested precision was taken
\* back by the platform check.
C37_StronglyTypedIffNoPrecision ==
  (Configured /\ locals.major > 8) =>
    (locals.strongly_typed <=> locals.flags \cap {"kFP16", "kINT8"} = {})

\* C38: a node that asks for DLA while neither FP16 nor INT8 is in effect
\* is rejected with a configuration error; with one of them in effect and
\* a core index that is not negative, DLA is set with GPU fallback on a
\* core below the number of DLA cores and the name carries that core, and
\* with no DLA core DLA is switched off and the name has no DLA tag.
C38_DlaNeedsLowPrecision ==
  locals.status \in {"ok", "config_error"} =>
    LET in_effect == locals.flags \cap {"kFP16", "kINT8"} # {} IN
    /\ (locals.asked_dla /\ ~in_effect) => locals.status = "config_error"
    /\ (locals.asked_dla /\ in_effect /\ locals.asked_core >= 0 /\ locals.nb_dla > 0) =>
         /\ locals.device = "kDLA" /\ "kGPU_FALLBACK" \in locals.flags
         /\ \E core \in 0 .. locals.nb_dla - 1 :
              /\ locals.dla_core_set = <<core>>
              /\ SubSeq(locals.tags, Len(locals.tags) - 1, Len(locals.tags))
                   = <<"_dlacore", to_string(core)>>
    /\ (locals.asked_dla /\ in_effect /\ locals.asked_core >= 0 /\ locals.nb_dla = 0) =>
         /\ ~locals.dla_enable_ /\ locals.device = "kGPU"
         /\ \A k \in 1 .. Len(locals.tags) : locals.tags[k] # "_dlacore"

\* the DLA block as it is: it is skipped without an error when no low
\* precision is in effect
DlaSkippedSilently ==
  (Configured /\ locals.asked_dla /\ locals.flags \cap {"kFP16", "kINT8"} = {}) =>
    /\ locals.device = "kGPU" /\ locals.dla_core_set = <<>>
    /\ locals.dla_enable_

\* layer i of the parsed network is the POW of a POW-REDUCE pair or its REDUCE
InPowReduce(i) ==
  \/ /\ i < Len(locals.parsed)
     /\ IsPow(locals.parsed[i]) /\ IsReduce(locals.parsed[i + 1])
  \/ /\ i > 1
     /\ IsPow(locals.parsed[i - 1]) /\ IsReduce(locals.parsed[i])

\* C39: when the node is configured with fp16_enable_ and
\* layer_norm_fp32_fallback_ on, a layer is pinned to FP32 exactly when it
\* is the element-wise POW of an adjacent POW-REDUCE pair or the REDUCE of
\* one, whichever place the pair has in the network.
C39_PowReducePinned ==
  (Configured /\ locals.asked_fp16 /\ locals.layer_norm_fp32_fallback_) =>
    \A i \in 1 .. Len(locals.layers) : locals.layers[i].fp32 <=> InPowReduce(i)

\* the guard as it is: the pair that starts at layer 0 is not looked at
PinnedFromLayerOne ==
  (Configured /\ locals.asked_fp16 /\ locals.layer_norm_fp32_fallback_) =>
    \A i \in 1 .. Len(locals.layers) :
      locals.layers[i].fp32 <=>
        \/ (i > 1 /\ i < Len(locals.parsed)
              /\ IsPow(locals.parsed[i]) /\ IsReduce(locals.parsed[i + 1]))
        \/ (i > 2 /\ IsPow(locals.parsed[i - 1]) /\ IsReduce(locals.parsed[i]))

\* ---------------------------------------------------------------------
\* Properties of Spec: profiles at the first launch
\* ---------------------------------------------------------------------

\* no dimension of the store still holds the sentinel triple
NoSentinel(ranges) ==
  \A n \in DOMAIN ranges : \A j \in DOMAIN ranges[n] :
    \A i \in 1 .. Len(ranges[n][j]) : ranges[n][j][i] # SentinelTriple

\* some profile the engine was built for spans the value v in every dynamic
\* dimension of every input
Covers(built_for, net, v) ==
  \A k \in 1 .. Len(net) : \A j \in DynamicDims(net[k]) :
    /\ net[k].name \in DOMAIN built_for
    /\ j \in DOMAIN built_for[net[k].name]
    /\ \E i \in 1 .. Len(built_for[net[k].name][j]) :
         /\ built_for[net[k].name][j][i][1] <= v
         /\ v <= built_for[net[k].name][j][i][2]

\* the last compute call of a node compiled from a graph reached enqueueV3
GraphLaunch == node = "graph" /\ last_call.valid /\ last_call.enqueue # "not called"

Compiled == compiled.status # "none" /\ ~IsCtxNode

\* the store holds one sentinel triple for every dynamic dimension of every
\* input, and nothing else
SeededStore(ranges, net) ==
  /\ DOMAIN ranges = {net[k].name : k \in {i \in 1 .. Len(net) : SeesDynamic(net[i])}}
  /\ \A k \in 1 .. Len(net) :
       SeesDynamic(net[k]) =>
         ranges[net[k].name] =
           [j \in (IF net[k].is_shape THEN {0} ELSE DynamicDims(net[k])) |->
              <<SentinelTriple>>]

FixedNode ==
  /\ Compiled /\ compiled.results[1].status = "ok"
  /\ ~compiled.results[1].has_dynamic_shape

\* the profiles of the engine that Compile built from the explicit ranges
\* or deserialized from one of the engine cache files
CompileTimeProfiles ==
  IF compiled.results[1].loaded
  THEN {compiled.results[1].disk_before[f].built_for :
          f \in {"engine", "stripped", "encrypted"}}
  ELSE {compiled.results[1].explicit}

AppliedExecution ==
  {k \in 1 .. locals.k :
     locals.applied[k] /\ ~fused_nodes[1].net[k].is_shape}

\* the three values the options carry for dimension j of profile i
OptionTriple(name, i, j) ==
  <<profile_min_shapes_[name][i][j + 1], profile_max_shapes_[name][i][j + 1],
    profile_opt_shapes_[name][i][j + 1]>>

\* what profile i holds for dimension j of the input, as 64-bit values
ProfileTriple(name, i, j) ==
  <<SignExtend(locals.trt_profiles[i][name].min[j + 1]),
    SignExtend(locals.trt_profiles[i][name].max[j + 1]),
    SignExtend(locals.trt_profiles[i][name].opt[j + 1])>>

\* the store holds one triple per dynamic dimension and profile, the values
\* of the options, and no entry for a static dimension
StoreOfOptions(input) ==
  LET r == locals.input_explicit_shape_ranges IN
  /\ input.name \in DOMAIN r
  /\ DOMAIN r[input.name] = DynamicDims(input)
  /\ \A j \in DynamicDims(input) :
       /\ Len(r[input.name][j]) = Len(locals.trt_profiles)
       /\ \A i \in 1 .. Len(locals.trt_profiles) :
            r[input.name][j][i] = OptionTriple(input.name, i, j)

\* every static dimension of every profile echoes the network's dimension
StaticEchoed(input) ==
  \A i \in 1 .. Len(locals.trt_profiles) : \A j \in DimIdx(input) :
    DimAt(input, j) # -1 =>
      ProfileTriple(input.name, i, j) =
        <<SignExtend(DimAt(input, j)), SignExtend(DimAt(input, j)),
          SignExtend(DimAt(input, j))>>

\* C29: after the explicit profiles are applied to an execution tensor,
\* every profile holds the network's dimension in every static dimension
\* and the configured min, max and opt value in every dynamic dimension,
\* and the store holds exactly one (min, max, opt) triple per dynamic
\* dimension and profile and nothing for the static dimensions.
C29_ProfileEqualsOptions ==
  \A k \in AppliedExecution :
    LET input == fused_nodes[1].net[k] IN
    /\ StaticEchoed(input)
    /\ \A i \in 1 .. Len(locals.trt_profiles) : \A j \in DynamicDims(input) :
         ProfileTriple(input.name, i, j) = OptionTriple(input.name, i, j)
    /\ StoreOfOptions(input)

\* what does hold: the dynamic dimensions of a profile are the lower 32
\* bits of the configured values, while the store keeps the values whole
ProfileNarrowsOptions ==
  \A k \in AppliedExecution :
    LET input == fused_nodes[1].net[k] IN
    /\ StaticEchoed(input)
    /\ \A i \in 1 .. Len(locals.trt_profiles) : \A j \in DynamicDims(input) :
         \A sel \in 1 .. 3 :
           ProfileTriple(input.name, i, j)[sel] =
             SignExtend(StaticCastInt32(OptionTriple(input.name, i, j)[sel]))
    /\ StoreOfOptions(input)

====
